---- MODULE Spec2Model ----
(***************************************************************************)
(* Model of the NetTool BLE HTTP proxy service (pi_zero_ble_service.py).   *)
(*                                                                         *)
(* The GATT method handlers (WriteValue, ReadValue, StartNotify,           *)
(* StopNotify) run one at a time on the event-loop thread, so each is one  *)
(* atomic action.  Every LAST frame starts a thread running                *)
(* _process_http_request; a thread shares only response_data (written      *)
(* under data_lock) and the response characteristic with the handlers, so  *)
(* its steps are: parse (local, ending in the store of the 500 response    *)
(* when parsing raises), the origin call ending in the store of the        *)
(* response, and the notification.                                         *)
(*                                                                         *)
(* Bytes are integers 0..255 and byte strings are sequences of them.       *)
(*                                                                         *)
(* The central of client/test_ble_client.py (its NotificationDelegate and  *)
(* send_http_request) and the process around the service (main and the     *)
(* __main__ block: start-up, signals, interpreter shutdown) are modelled   *)
(* next to the service, each with a specification of its own.              *)
(***************************************************************************)
EXTENDS Integers, Sequences, FiniteSets, TLC

(***************************************************************************)
(* Bounds of the model.                                                    *)
(***************************************************************************)
\* WriteValue calls explored.
MaxWrites == 3
\* Complete requests (threads) explored where the threads run.
MaxRequests == 2
\* Complete requests explored where the responses are read.
MaxReadRequests == 1
\* ReadValue calls explored.
MaxReads == 2
\* send_http_request calls explored.
MaxClientRequests == 2
\* frames a central writes under IDs of its own, one ID per frame
MaxFill == 257
\* time.time() when the module is loaded, in seconds, and the seconds the
\* clock advances in a model of the Status characteristic
StartTime == 10
MaxTicks == 3
\* reads of the Status characteristic in that model
MaxStatusReads == 1
\* calls of update_connection_stats in a model of the bookkeeping alone
MaxCalls == 2

(***************************************************************************)
(* Program constants.                                                      *)
(***************************************************************************)
\* req_id_bytes = bytes(value[:16])
IdLen == 16
\* if len(value) < 17
HeaderLen == 17
\* self.mtu = 23  # Default MTU
DefaultMtu == 23
\* if mtu > 23 and mtu <= 517
MinMtu == 23
MaxMtu == 517
\* return self.mtu - 3
AttHeader == 3
\* notify_data = bytes.fromhex(req_id) + bytes([1])
ReadyStatus == 1

(***************************************************************************)
(* Byte strings used by the service and by the inputs.                     *)
(***************************************************************************)
CR == 13
LF == 10
SP == 32
COLON == 58

\* "\r\n"
CRLF == <<13, 10>>
\* "HTTP/1.1 500 Internal Server Error\r\n"
Err500Line ==
    <<72, 84, 84, 80, 47, 49, 46, 49, 32, 53, 48, 48, 32, 73, 110, 116, 101,
      114, 110, 97, 108, 32, 83, 101, 114, 118, 101, 114, 32, 69, 114, 114,
      111, 114, 13, 10>>
\* "Content-Type: text/plain\r\n\r\n"
Err500Headers ==
    <<67, 111, 110, 116, 101, 110, 116, 45, 84, 121, 112, 101, 58, 32, 116,
      101, 120, 116, 47, 112, 108, 97, 105, 110, 13, 10, 13, 10>>
\* "Error: "
Err500Prefix == <<69, 114, 114, 111, 114, 58, 32>>

(***************************************************************************)
(* Sequence helpers.                                                       *)
(***************************************************************************)
\* s[a:b] of Python, 0-based, end exclusive, clipped to the sequence.
Slice(s, a, b) ==
    LET lo == IF a < 0 THEN 0 ELSE a
        hi == IF b > Len(s) THEN Len(s) ELSE b
    IN  IF hi <= lo THEN << >> ELSE [k \in 1..(hi - lo) |-> s[lo + k]]

\* 1-based index of the first occurrence of byte pair <<x, y>> in s, 0 if none.
RECURSIVE FindPair(_, _, _, _)
FindPair(s, x, y, k) ==
    IF k >= Len(s) THEN 0
    ELSE IF s[k] = x /\ s[k + 1] = y THEN k
    ELSE FindPair(s, x, y, k + 1)

\* 1-based index of the first occurrence of byte x in s, 0 if none.
RECURSIVE FindByte(_, _, _)
FindByte(s, x, k) ==
    IF k > Len(s) THEN 0
    ELSE IF s[k] = x THEN k
    ELSE FindByte(s, x, k + 1)

\* str.split('\r\n'): the pieces between the CR LF separators, left to right.
RECURSIVE SplitCRLF(_)
SplitCRLF(s) ==
    LET k == FindPair(s, CR, LF, 1)
    IN  IF k = 0 THEN <<s>>
        ELSE <<Slice(s, 0, k - 1)>> \o SplitCRLF(Slice(s, k + 1, Len(s)))

\* str.split(' '): the pieces between single spaces.
RECURSIVE SplitSpace(_)
SplitSpace(s) ==
    LET k == FindByte(s, SP, 1)
    IN  IF k = 0 THEN <<s>>
        ELSE <<Slice(s, 0, k - 1)>> \o SplitSpace(Slice(s, k, Len(s)))

\* '\r\n'.join(lines)
RECURSIVE JoinCRLF(_)
JoinCRLF(lines) ==
    IF lines = << >> THEN << >>
    ELSE IF Len(lines) = 1 THEN lines[1]
    ELSE lines[1] \o CRLF \o JoinCRLF(Tail(lines))

\* list.index(''): 1-based position of the first empty line, 0 when none
\* (Python raises ValueError).
RECURSIVE IndexOfEmpty(_, _)
IndexOfEmpty(lines, k) ==
    IF k > Len(lines) THEN 0
    ELSE IF lines[k] = << >> THEN k
    ELSE IndexOfEmpty(lines, k + 1)

\* bytes.decode('utf-8') succeeds.  The inputs of the model use ASCII bytes
\* and the byte 0xFF, which is valid in no UTF-8 sequence.
Utf8Ok(bs) == \A k \in 1..Len(bs) : bs[k] < 128

\* bytes.hex(): two hexadecimal digits (values 0..15) per byte.
Hex(bs) ==
    [k \in 1..(2 * Len(bs)) |->
        IF k % 2 = 1 THEN bs[(k + 1) \div 2] \div 16 ELSE bs[k \div 2] % 16]

\* FromHex with the two digits of every byte exchanged.
FromHexSwapped(hs) ==
    [k \in 1..(Len(hs) \div 2) |-> 16 * hs[2 * k] + hs[2 * k - 1]]

\* bytes.fromhex(): one byte per two hexadecimal digits.
FromHex(hs) ==
    [k \in 1..(Len(hs) \div 2) |-> 16 * hs[2 * k - 1] + hs[2 * k]]


\* str(int): the decimal digits of n >= 0 as ASCII bytes.
RECURSIVE Decimal(_)
Decimal(n) ==
    IF n < 10 THEN <<48 + n>> ELSE Decimal(n \div 10) \o <<48 + (n % 10)>>

\* str.strip() for the blanks the inputs use (space, CR, LF).
RECURSIVE Strip(_)
Strip(s) ==
    IF s = << >> THEN s
    ELSE IF Head(s) \in {SP, CR, LF} THEN Strip(Tail(s))
    ELSE IF s[Len(s)] \in {SP, CR, LF} THEN Strip(Slice(s, 0, Len(s) - 1))
    ELSE s

CeilDiv(a, b) == (a + b - 1) \div b

(***************************************************************************)
(* Inputs of the model.                                                    *)
(***************************************************************************)
None == "None"

\* Two correlation IDs: 01 02 .. 10 and FF FE .. F0.
IdA == [k \in 1..IdLen |-> k]
IdB == [k \in 1..IdLen |-> 256 - k]
Ids == {IdA, IdB}

\* Two IDs as the client makes them, str(uuid.uuid4())[:16]:
\* "00000000-0000-40" and "ffffffff-ffff-4f".
IdC == [k \in 1..IdLen |-> IF k \in {9, 14} THEN 45 ELSE IF k = 15 THEN 52 ELSE 48]
IdD == [k \in 1..IdLen |-> IF k \in {9, 14} THEN 45 ELSE IF k = 15 THEN 52 ELSE 102]
ClientIds == {IdC, IdD}
AllIds == Ids \cup ClientIds

\* "GET / HTTP/1.1"
PayLine == <<71, 69, 84, 32, 47, 32, 72, 84, 84, 80, 47, 49, 46, 49>>
\* "\r\n\r\n"
PayEnd == <<13, 10, 13, 10>>
\* "\r\nX": a header line without a colon
PayBadHeader == <<13, 10, 88>>
\* a byte that is not UTF-8
PayBinary == <<255>>
Payloads == {PayLine, PayEnd, PayBinary}

\* flags byte: bit 0 = new request, bit 1 = final chunk
FlagBytes == 0..3

MkFrame(id, flags, payload) == id \o <<flags>> \o payload

\* flags bytes with a reserved bit (0xFC) set: alone, and with FIRST | LAST
ReservedFlagBytes == {4, 7}

\* Values written to the Request characteristic: frames, frames with
\* reserved flag bits, and two values shorter than the 17-byte header.
WriteValues ==
    {MkFrame(id, f, p) : id \in Ids, f \in FlagBytes, p \in Payloads}
        \cup {MkFrame(IdA, f, PayEnd) : f \in ReservedFlagBytes}
        \cup {<< >>, IdA}

\* options['device'] of a call: absent or a device path.
Devices == {"dev1", "dev2"}
DeviceOpts == {None} \cup Devices

\* D-Bus senders of StartNotify / StopNotify.
Senders == {"c1"}

\* options['mtu'] of a read: the MTU the central reports, 0 when absent
\* (ReadValue starts from mtu = 0).
MtuOpts == {0, 23, 24, 517, 518}

\* options['offset'] of a read.
OffsetOpts == {0, 20}

\* options['req_id'] of a read: the hex string of an ID, empty when absent
\* (ReadValue tests "not req_id").
NoReqId == << >>
ReqIdOpts == {NoReqId} \cup {Hex(id) : id \in Ids}

\* What the origin does with a forwarded request: answer, fail the call
\* (requests raises), or never answer (requests.request has no timeout).
\* 200 OK, header X: y, body "hi"
Reply200 ==
    [status_code |-> 200, reason |-> <<79, 75>>,
     headers |-> << <<(<<88>>), (<<121>>)>> >>, text |-> <<104, 105>>]
OriginReplies == {Reply200}

(***************************************************************************)
(* State.                                                                  *)
(***************************************************************************)
VARIABLES
    request_data,       \* req_id (hex) -> bytes received so far
    response_data,      \* req_id (hex) -> serialized response
    connection_stats,   \* the counters of connection_stats
    connected_devices,  \* device paths seen
    mtu,                \* HTTPProxyService.mtu
    notifying,          \* HTTPResponseCharacteristic.notifying
    current_value,      \* HTTPResponseCharacteristic.current_value
    workers,            \* the _process_http_request threads, in start order
    emitted,            \* Value notifications emitted on the Response char.
    last_write,         \* the last WriteValue: its value, whether the table
                        \* held its ID before it, and how the call ended
                        \* ("return", or the exception raised)
    read_result,        \* the last ReadValue: its options and returned bytes
    sent,               \* per ID: the frames written since its last FIRST
    nwrites, nreads,
    last_status_update, \* HTTPProxyService.last_status_update
    status_notifying,   \* StatusCharacteristic.notifying
    status_rebuild,     \* the last run of notify_status_change
    status_read,        \* the last read of the Status characteristic
    client,             \* the central running test_ble_client.py
    proc,               \* the service process: main() and __main__
    now,                \* time.time(), in seconds
    last_call,          \* the last direct call of update_connection_stats
    link,               \* per central: its connection to the adapter
    codec,              \* a response on its way through serializer and parser
    threads,            \* per thread: the handler it runs and the lock
                        \* statements it still has to execute
    locks,              \* data_lock and stats_lock: the thread holding each
    reader,             \* a central reading a response chunk by chunk
    framer              \* a request on its way through the client's write loop

\* The state of the service process and its history variables.
status_vars ==
    <<last_status_update, status_notifying, status_rebuild, status_read>>

service_vars ==
    <<request_data, response_data, connection_stats, connected_devices, mtu,
      notifying, current_value, workers, emitted, last_write, read_result,
      sent, nwrites, nreads, status_vars>>

\* The clock, the record of direct calls and the link layer.
\* The benches on which the pure functions are exercised.
lock_vars == <<threads, locks>>
bench == <<codec, lock_vars, reader, framer>>

world == <<now, last_call, link, bench>>

\* What the handlers and threads of the service never change.
env == <<client, proc, world>>

vars == <<service_vars, env>>

\* The client before connect_to_device: the fields of its
\* NotificationDelegate (response_data, response_complete, current_uuid,
\* empty for None), the frames send_http_request has still to write, the
\* number of notifications of emitted the delegate has handled, and how the
\* last send_http_request ended with what it returned.
NoResponse ==
    [status_line |-> << >>, headers |-> << >>, body |-> << >>,
     status_code |-> -1, reason |-> << >>]
\* The threads that take the locks: the event loop thread, on which
\* dbus_next runs every method handler, and the _process_http_request
\* threads that exist at one time.
MaxThreads == 2
LoopThread == 0
Threads == 0..MaxThreads
Locks == {"data_lock", "stats_lock"}
\* threading.Lock(): held by no thread.
Free == -1
NoHandler == [handler |-> "none", ops |-> << >>]

\* A central that has not read yet.
NoReader == [offset |-> 0, got |-> << >>, reads |-> 0, ended |-> FALSE]

\* No request in the write loop.
NoFramer ==
    [stage |-> "idle", request_id |-> << >>, request_bytes |-> << >>,
     chunks |-> << >>]

\* No response on the codec bench.
NoCodec ==
    [stage |-> "idle", http_ver |-> << >>,
     r |-> [status_code |-> 0, reason |-> << >>, headers |-> << >>,
            text |-> << >>],
     wire |-> << >>,
     parsed |-> [outcome |-> "none", response |-> NoResponse]]

ClientInit ==
    [pc |-> "disconnected", nrequests |-> 0, chunks |-> << >>,
     response_data |-> << >>, response_complete |-> FALSE,
     current_uuid |-> << >>, delivered |-> 0,
     outcome |-> "none", response |-> NoResponse]

\* The process as main() is entered: where it is, the token in the status
\* file, what it has registered with BlueZ, whether its signal handlers
\* are installed, the signal it received and its exit code (-1 while it
\* runs); whether find_adapter found an adapter and whether that adapter is
\* powered; and the calls it made to BlueZ (attempts included), in order.
ProcInit ==
    [pc |-> "start", status_file |-> "absent", adapter |-> FALSE,
     powered |-> FALSE, application |-> FALSE, advertisement |-> FALSE,
     handlers |-> FALSE, signal |-> "none", exit_code |-> -1,
     calls |-> << >>]

\* Before notify_status_change ran: the value of last_status_update it
\* replaced, the value handed to set_value, the counters when the update
\* that ran it returned, and the exception it caught.
NoRebuild ==
    [prev |-> 0, value |-> << >>,
     after |-> [total_connections |-> 0, total_requests |-> 0,
                total_bytes_sent |-> 0, total_bytes_received |-> 0,
                connected_clients |-> 0],
     raised |-> None]

\* Before a read of the Status characteristic: its options, the document
\* json.dumps made of the counters, and the bytes returned.
NoStatusRead ==
    [n |-> 0, offset |-> 0, device |-> None, status_json |-> << >>,
     value |-> << >>]

\* Before a direct call: its arguments, and the bookkeeping before it.
NoCall ==
    [device_path |-> None, connected |-> None, bytes_sent |-> 0,
     bytes_received |-> 0, n |-> 0,
     before |-> [stats |-> [total_connections |-> 0, total_requests |-> 0,
                            total_bytes_sent |-> 0,
                            total_bytes_received |-> 0,
                            connected_clients |-> 0],
                 devices |-> {}]]

InitState ==
    /\ request_data = << >>
    /\ response_data = << >>
    /\ connection_stats =
         [total_connections |-> 0, total_requests |-> 0,
          total_bytes_sent |-> 0, total_bytes_received |-> 0,
          connected_clients |-> 0]
    /\ connected_devices = {}
    /\ mtu = DefaultMtu
    /\ notifying = {}
    /\ current_value = << >>
    /\ workers = << >>
    /\ emitted = << >>
    /\ last_write = [value |-> << >>, known |-> FALSE, result |-> None]
    /\ read_result =
         [req_id |-> NoReqId, offset |-> 0, mtu |-> 0, device |-> None,
          chunk |-> << >>]
    /\ sent = [id \in AllIds |-> [st |-> "none", cat |-> << >>]]
    /\ nwrites = 0
    /\ nreads = 0
    /\ last_status_update = 0
    /\ status_notifying = {}
    /\ status_rebuild = NoRebuild
    /\ status_read = NoStatusRead
    /\ client = ClientInit
    /\ proc = ProcInit
    /\ now = StartTime
    /\ last_call = NoCall
    /\ link = [device \in Devices |-> "never"]
    /\ threads = [t \in Threads |-> NoHandler]
    /\ locks = [l \in Locks |-> Free]
    /\ reader = NoReader

Init == InitState /\ codec = NoCodec /\ framer = NoFramer


(***************************************************************************)
(* HTTPProxyService.update_connection_stats                                *)
(***************************************************************************)
\* if (current_time - self.last_status_update) > 2.0
StatusInterval == 2

\* json.dumps(connection_stats).encode('utf-8'): the keys in the order the
\* dictionary got them.  uptime_start is the float time.time() returned
\* when the module was loaded; cpu_percent and memory_percent exist once
\* update_connection_stats has run (sampled), and hold what psutil
\* reported, here 0.0 and 50.0.
\* {"total_connections":
KeyTotalConnections ==
    <<123, 34, 116, 111, 116, 97, 108, 95, 99, 111, 110, 110, 101, 99, 116,
      105, 111, 110, 115, 34, 58, 32>>
\* , "total_requests":
KeyTotalRequests ==
    <<44, 32, 34, 116, 111, 116, 97, 108, 95, 114, 101, 113, 117, 101, 115,
      116, 115, 34, 58, 32>>
\* , "total_bytes_sent":
KeyTotalBytesSent ==
    <<44, 32, 34, 116, 111, 116, 97, 108, 95, 98, 121, 116, 101, 115, 95,
      115, 101, 110, 116, 34, 58, 32>>
\* , "total_bytes_received":
KeyTotalBytesReceived ==
    <<44, 32, 34, 116, 111, 116, 97, 108, 95, 98, 121, 116, 101, 115, 95,
      114, 101, 99, 101, 105, 118, 101, 100, 34, 58, 32>>
\* , "uptime_start":
KeyUptimeStart ==
    <<44, 32, 34, 117, 112, 116, 105, 109, 101, 95, 115, 116, 97, 114, 116,
      34, 58, 32>>
\* , "connected_clients":
KeyConnectedClients ==
    <<44, 32, 34, 99, 111, 110, 110, 101, 99, 116, 101, 100, 95, 99, 108,
      105, 101, 110, 116, 115, 34, 58, 32>>
\* , "cpu_percent":
KeyCpuPercent ==
    <<44, 32, 34, 99, 112, 117, 95, 112, 101, 114, 99, 101, 110, 116, 34,
      58, 32>>
\* , "memory_percent":
KeyMemoryPercent ==
    <<44, 32, 34, 109, 101, 109, 111, 114, 121, 95, 112, 101, 114, 99, 101,
      110, 116, 34, 58, 32>>
CpuSample == <<48, 46, 48>>
MemorySample == <<53, 48, 46, 48>>
StatusJson(stats, sampled) ==
    KeyTotalConnections \o Decimal(stats.total_connections)
      \o KeyTotalRequests \o Decimal(stats.total_requests)
      \o KeyTotalBytesSent \o Decimal(stats.total_bytes_sent)
      \o KeyTotalBytesReceived \o Decimal(stats.total_bytes_received)
      \o KeyUptimeStart \o Decimal(StartTime) \o <<46, 48>>
      \o KeyConnectedClients \o Decimal(stats.connected_clients)
      \o (IF sampled
          THEN KeyCpuPercent \o CpuSample \o KeyMemoryPercent \o MemorySample
          ELSE << >>)
      \o <<125>>

\* The bookkeeping update_connection_stats works on, and its assignment.
Bookkeeping ==
    [stats |-> connection_stats, devices |-> connected_devices,
     last_status_update |-> last_status_update, rebuild |-> status_rebuild]
Booked(cs) ==
    /\ connection_stats' = cs.stats
    /\ connected_devices' = cs.devices
    /\ last_status_update' = cs.last_status_update
    /\ status_rebuild' = cs.rebuild

\* The connection tracking of update_connection_stats: the first
\* statement under stats_lock.
TrackDevice(cs, device_path, connected) ==
    LET st == cs.stats
        dv == cs.devices
        add == device_path # None /\ connected = "True" /\ device_path \notin dv
        del == device_path # None /\ connected = "False" /\ device_path \in dv
        dv1 == IF add THEN dv \cup {device_path}
               ELSE IF del THEN dv \ {device_path} ELSE dv
    IN  [stats |-> [st EXCEPT
                      !.total_connections = IF add THEN @ + 1 ELSE @,
                      !.connected_clients =
                          IF add \/ del THEN Cardinality(dv1) ELSE @],
         devices |-> dv1]

\* The byte and request counters of update_connection_stats.
CountBytes(st, bytes_sent, bytes_received) ==
    [st EXCEPT
       !.total_bytes_sent = @ + bytes_sent,
       !.total_bytes_received = @ + bytes_received,
       !.total_requests = IF bytes_received > 0 THEN @ + 1 ELSE @]

\* notify_status_change serializing the counters dumped, at the end of an
\* update that leaves the counters at stats.  set_value returns at once
\* without subscribers; with subscribers it calls self.PropertiesChanged,
\* which a ServiceInterface does not have, and the AttributeError is caught
\* and logged: no notification leaves the Status characteristic.
notify_status_change(cs, dumped, stats) ==
    [prev |-> cs.last_status_update,
     value |-> StatusJson(dumped, TRUE),
     after |-> stats,
     raised |-> IF status_notifying = {} THEN None ELSE "AttributeError"]

\* The end of update_connection_stats, still under stats_lock: the status
\* notification, when the last one is more than 2 s old.
RateLimited(cs, tracked, stats) ==
    LET due == now - cs.last_status_update > StatusInterval
    IN  [stats |-> stats, devices |-> tracked.devices,
         last_status_update |-> IF due THEN now ELSE cs.last_status_update,
         rebuild |-> IF due THEN notify_status_change(cs, stats, stats)
                     ELSE cs.rebuild]

\* update_connection_stats where the bytes received count as sent too.
UpdateStatsReceivedAsSent(cs, device_path, connected, bytes_sent, bytes_received) ==
    LET tracked == TrackDevice(cs, device_path, connected)
    IN  RateLimited(cs, tracked,
                    CountBytes(tracked.stats, bytes_sent + bytes_received,
                               bytes_received))

\* update_connection_stats where a device already connected is counted
\* again.
UpdateStatsCountsAgain(cs, device_path, connected, bytes_sent, bytes_received) ==
    LET tracked == TrackDevice(cs, device_path, connected)
        again == device_path # None /\ connected = "True"
                   /\ device_path \in cs.devices
        st == IF again
              THEN [tracked.stats EXCEPT !.total_connections = @ + 1]
              ELSE tracked.stats
    IN  RateLimited(cs, tracked, CountBytes(st, bytes_sent, bytes_received))

\* update_connection_stats leaving connected_clients alone when a device
\* is removed from the set.
UpdateStatsKeepsClients(cs, device_path, connected, bytes_sent, bytes_received) ==
    LET tracked == TrackDevice(cs, device_path, connected)
        st == [tracked.stats EXCEPT
                 !.connected_clients =
                     IF connected = "False" THEN cs.stats.connected_clients
                     ELSE @]
    IN  RateLimited(cs, tracked, CountBytes(st, bytes_sent, bytes_received))

\* update_connection_stats where total_bytes_sent is assigned, not added to.
UpdateStatsAssignsSent(cs, device_path, connected, bytes_sent, bytes_received) ==
    LET tracked == TrackDevice(cs, device_path, connected)
        st == CountBytes(tracked.stats, bytes_sent, bytes_received)
    IN  RateLimited(cs, tracked, [st EXCEPT !.total_bytes_sent = bytes_sent])

\* update_connection_stats serializing the counters before it has counted
\* the bytes.
UpdateStatsNotifiesEarly(cs, device_path, connected, bytes_sent, bytes_received) ==
    LET tracked == TrackDevice(cs, device_path, connected)
        stats == CountBytes(tracked.stats, bytes_sent, bytes_received)
        due == now - cs.last_status_update > StatusInterval
    IN  [stats |-> stats, devices |-> tracked.devices,
         last_status_update |-> IF due THEN now ELSE cs.last_status_update,
         rebuild |-> IF due
                     THEN notify_status_change(cs, tracked.stats, stats)
                     ELSE cs.rebuild]

\* cs is the bookkeeping; device_path and connected are None when not
\* given.  The whole body runs under stats_lock.
update_connection_stats(cs, device_path, connected, bytes_sent, bytes_received) ==
    LET tracked == TrackDevice(cs, device_path, connected)
    IN  RateLimited(cs, tracked,
                    CountBytes(tracked.stats, bytes_sent, bytes_received))

\* The first lines of every handler: register the calling device, if given.
RegisterDevice(cs, device) ==
    IF device # None
    THEN update_connection_stats(cs, device, "True", 0, 0)
    ELSE cs

set_mtu(m) == m

get_max_attribute_size(m) == m - AttHeader

(***************************************************************************)
(* HTTPRequestCharacteristic.WriteValue                                    *)
(***************************************************************************)
\* flags & 0x1, flags & 0x2
IsNew(flags) == flags % 2 = 1
IsFinal(flags) == (flags \div 2) % 2 = 1

\* req_id = bytes(value[:16]).hex(), flags = value[16], data = value[17:]
FrameId(value) == Hex(Slice(value, 0, IdLen))
FrameFlags(value) == value[IdLen + 1]
FrameData(value) == Slice(value, HeaderLen, Len(value))

\* Admit with the two operands of the append exchanged.
AdmitPrepend(table, req_id, flags, data) ==
    IF IsNew(flags)
    THEN IF req_id \in DOMAIN table
         THEN [table EXCEPT ![req_id] = data]
         ELSE table @@ (req_id :> data)
    ELSE IF req_id \in DOMAIN table
         THEN [table EXCEPT ![req_id] = data \o @]
         ELSE table

\* Admit where a FIRST frame for a known ID appends instead of replacing.
AdmitNoEvict(table, req_id, flags, data) ==
    IF req_id \in DOMAIN table
    THEN [table EXCEPT ![req_id] = @ \o data]
    ELSE IF IsNew(flags) THEN table @@ (req_id :> data) ELSE table

\* The table after the frame (req_id, flags, data): the body of the
\* "if is_new / else" statement under data_lock.
Admit(table, req_id, flags, data) ==
    IF IsNew(flags)
    THEN IF req_id \in DOMAIN table
         THEN [table EXCEPT ![req_id] = data]
         ELSE table @@ (req_id :> data)
    ELSE IF req_id \in DOMAIN table
         THEN [table EXCEPT ![req_id] = @ \o data]
         ELSE table

\* A thread object just started on _process_http_request(req_id, req_data).
NewWorker(req_id, req_data) ==
    [req_id |-> req_id, req_data |-> req_data, pc |-> "start",
     outcome |-> "none", http_ver |-> << >>]

\* "if is_final": the thread started, or the KeyError of request_data[req_id].
Spawn(table, req_id, flags) ==
    IF ~IsFinal(flags) THEN [result |-> "return", started |-> << >>]
    ELSE IF req_id \in DOMAIN table
    THEN [result |-> "return", started |-> <<NewWorker(req_id, table[req_id])>>]
    ELSE [result |-> "KeyError", started |-> << >>]

\* The reassembly the frames of an ID describe (what the central sent):
\* "open" after a FIRST frame, "done" after its LAST frame, "bad" once the
\* frames of the ID are not FIRST, continuations, LAST in this order.
Track(s, flags, data) ==
    IF s.st = "none" /\ IsNew(flags)
    THEN [st |-> IF IsFinal(flags) THEN "done" ELSE "open", cat |-> data]
    ELSE IF s.st = "open" /\ ~IsNew(flags)
    THEN [st |-> IF IsFinal(flags) THEN "done" ELSE "open",
          cat |-> s.cat \o data]
    ELSE [st |-> "bad", cat |-> << >>]

\* WriteValue asking for the 16 ID bytes only: a value without a flags
\* byte is taken as a FIRST frame.
WriteValueIdOnly(value, device) ==
    /\ nwrites' = nwrites + 1
    /\ LET cs1 == RegisterDevice(Bookkeeping, device)
       IN  Booked(update_connection_stats(cs1, None, None, 0, Len(value)))
    /\ IF Len(value) < IdLen
       THEN /\ last_write' =
                 [value |-> value, known |-> FALSE, result |-> "return"]
            /\ UNCHANGED <<request_data, workers, sent>>
       ELSE LET req_id == FrameId(value)
                flags == IF Len(value) > IdLen THEN FrameFlags(value) ELSE 1
                data == FrameData(value)
                table == Admit(request_data, req_id, flags, data)
                sp == Spawn(table, req_id, flags)
            IN  /\ request_data' = table
                /\ workers' = workers \o sp.started
                /\ last_write' =
                     [value |-> value, known |-> req_id \in DOMAIN request_data,
                      result |-> sp.result]
                /\ sent' = [sent EXCEPT
                              ![Slice(value, 0, IdLen)] = Track(@, flags, data)]
    /\ UNCHANGED <<response_data, mtu, notifying, current_value, emitted,
                   read_result, nreads, status_notifying, status_read>>

\* WriteValue running the request itself: it returns only when no thread
\* is in its origin call.
WriteValueWaits(value, device) ==
    /\ \A i \in 1..Len(workers) : workers[i].pc \notin {"origin", "blocked"}
    /\ nwrites' = nwrites + 1
    /\ LET cs1 == RegisterDevice(Bookkeeping, device)
       IN  Booked(update_connection_stats(cs1, None, None, 0, Len(value)))
    /\ IF Len(value) < HeaderLen
       THEN /\ last_write' =
                 [value |-> value, known |-> FALSE, result |-> "return"]
            /\ UNCHANGED <<request_data, workers, sent>>
       ELSE LET req_id == FrameId(value)
                flags == FrameFlags(value)
                data == FrameData(value)
                table == Admit(request_data, req_id, flags, data)
                sp == Spawn(table, req_id, flags)
            IN  /\ request_data' = table
                /\ workers' = workers \o sp.started
                /\ last_write' =
                     [value |-> value, known |-> req_id \in DOMAIN request_data,
                      result |-> sp.result]
                /\ sent' = [sent EXCEPT
                              ![Slice(value, 0, IdLen)] = Track(@, flags, data)]
    /\ UNCHANGED <<response_data, mtu, notifying, current_value, emitted,
                   read_result, nreads, status_notifying, status_read>>

WriteValue(value, device) ==
    /\ nwrites' = nwrites + 1
    /\ LET cs1 == RegisterDevice(Bookkeeping, device)
       IN  Booked(update_connection_stats(cs1, None, None, 0, Len(value)))
    /\ IF Len(value) < HeaderLen
       THEN /\ last_write' =
                 [value |-> value, known |-> FALSE, result |-> "return"]
            /\ UNCHANGED <<request_data, workers, sent>>
       ELSE LET req_id == FrameId(value)
                flags == FrameFlags(value)
                data == FrameData(value)
                table == Admit(request_data, req_id, flags, data)
                sp == Spawn(table, req_id, flags)
            IN  /\ request_data' = table
                /\ workers' = workers \o sp.started
                /\ last_write' =
                     [value |-> value, known |-> req_id \in DOMAIN request_data,
                      result |-> sp.result]
                /\ sent' = [sent EXCEPT
                              ![Slice(value, 0, IdLen)] = Track(@, flags, data)]
    /\ UNCHANGED <<response_data, mtu, notifying, current_value, emitted,
                   read_result, nreads, status_notifying, status_read>>


(***************************************************************************)
(* HTTPRequestCharacteristic._process_http_request                         *)
(***************************************************************************)
\* str(e) of the exceptions the parsing raises, abbreviated: the decode
\* error, list.index's ValueError, the unpacking ValueError of
\* "key, value = header_line.split(':', 1)", and the error of requests.
MsgDecode == <<100, 101, 99, 111, 100, 101>>
MsgIndex == <<105, 110, 100, 101, 120>>
MsgUnpack == <<117, 110, 112, 97, 99, 107>>
MsgOrigin == <<111, 114, 105, 103, 105, 110>>

\* headers[key.strip()] = value.strip() on a list of <<key, value>> pairs
\* (a dict: a repeated key keeps its place and takes the new value).
DictSet(d, key, val) ==
    IF \E k \in 1..Len(d) : d[k][1] = key
    THEN [k \in 1..Len(d) |-> IF d[k][1] = key THEN <<key, val>> ELSE d[k]]
    ELSE Append(d, <<key, val>>)

\* The headers of lines[from .. to] (1-based, inclusive).
RECURSIVE ParseHeaders(_, _, _, _)
ParseHeaders(lines, from, to, acc) ==
    IF from > to THEN acc
    ELSE LET line == lines[from]
             c == FindByte(line, COLON, 1)
         IN  ParseHeaders(lines, from + 1, to,
                 DictSet(acc, Strip(Slice(line, 0, c - 1)),
                              Strip(Slice(line, c, Len(line)))))

\* The try block up to the call of requests.request:
\*   "invalid": one of the two bare returns (no response is stored);
\*   "error":   an exception, with its message;
\*   "ok":      the request to forward.
ParseRequest(req_data) ==
    LET none == [kind |-> "invalid", msg |-> << >>, method |-> << >>,
                 path |-> << >>, http_ver |-> << >>, headers |-> << >>,
                 body |-> << >>]
    IN
    IF ~Utf8Ok(req_data) THEN [none EXCEPT !.kind = "error", !.msg = MsgDecode]
    ELSE
    LET lines == SplitCRLF(req_data)
        request_line == SplitSpace(lines[1])
        header_end == IndexOfEmpty(lines, 1)
    IN  IF Len(request_line) # 3 THEN none
        ELSE IF header_end = 0
        THEN [none EXCEPT !.kind = "error", !.msg = MsgIndex]
        ELSE IF \E k \in 2..(header_end - 1) : FindByte(lines[k], COLON, 1) = 0
        THEN [none EXCEPT !.kind = "error", !.msg = MsgUnpack]
        ELSE [kind |-> "ok", msg |-> << >>,
              method |-> request_line[1], path |-> request_line[2],
              http_ver |-> request_line[3],
              headers |-> ParseHeaders(lines, 2, header_end - 1, << >>),
              body |-> IF header_end < Len(lines)
                       THEN JoinCRLF(SubSeq(lines, header_end + 1, Len(lines)))
                       ELSE << >>]

\* "key: value\r\n" for every header of the origin's response.
RECURSIVE HeaderLines(_)
HeaderLines(hs) ==
    IF hs = << >> THEN << >>
    ELSE hs[1][1] \o <<COLON, SP>> \o hs[1][2] \o CRLF \o HeaderLines(Tail(hs))

\* resp_str: status line, headers, blank line, body.
SerializeResponse(http_ver, r) ==
    http_ver \o <<SP>> \o Decimal(r.status_code) \o <<SP>> \o r.reason \o CRLF
        \o HeaderLines(r.headers) \o CRLF \o r.text

\* error_resp of the except block.
ErrorResponse(msg) == Err500Line \o Err500Headers \o Err500Prefix \o msg

\* response_data[req_id] = resp
Store(table, req_id, resp) ==
    IF req_id \in DOMAIN table
    THEN [table EXCEPT ![req_id] = resp]
    ELSE table @@ (req_id :> resp)

Running(i) == i \in 1..Len(workers)

\* The thread runs up to the call of requests.request, or to its end.
WorkerParse(i) ==
    /\ Running(i)
    /\ workers[i].pc = "start"
    /\ LET w == workers[i]
           p == ParseRequest(w.req_data)
       IN  CASE p.kind = "invalid" ->
                  /\ workers' = [workers EXCEPT ![i].pc = "done",
                                                ![i].outcome = "returned"]
                  /\ UNCHANGED response_data
             [] p.kind = "error" ->
                  /\ workers' = [workers EXCEPT ![i].pc = "notify",
                                                ![i].outcome = "error"]
                  /\ response_data' =
                       Store(response_data, w.req_id, ErrorResponse(p.msg))
             [] p.kind = "ok" ->
                  /\ workers' = [workers EXCEPT ![i].pc = "origin",
                                                ![i].http_ver = p.http_ver]
                  /\ UNCHANGED response_data
    /\ UNCHANGED <<request_data, connection_stats, connected_devices, mtu,
                   notifying, current_value, emitted, last_write,
                   read_result, sent, nwrites, nreads,
                   status_vars>>

\* WorkerReply going on to the notification with the store left for later.
WorkerReplyNotifiesFirst(i, r) ==
    /\ Running(i)
    /\ workers[i].pc = "origin"
    /\ workers' = [workers EXCEPT ![i].pc = "notify", ![i].outcome = "reply"]
    /\ UNCHANGED <<request_data, response_data, connection_stats,
                   connected_devices, mtu,
                   notifying, current_value, emitted, last_write,
                   read_result, sent, nwrites, nreads,
                   status_vars>>

\* requests.request returns r; the response is built and stored.
WorkerReply(i, r) ==
    /\ Running(i)
    /\ workers[i].pc = "origin"
    /\ workers' = [workers EXCEPT ![i].pc = "notify", ![i].outcome = "reply"]
    /\ response_data' =
         Store(response_data, workers[i].req_id,
               SerializeResponse(workers[i].http_ver, r))
    /\ UNCHANGED <<request_data, connection_stats, connected_devices, mtu,
                   notifying, current_value, emitted, last_write,
                   read_result, sent, nwrites, nreads,
                   status_vars>>

\* requests.request raises (connection refused, ...): the 500 is stored.
WorkerOriginError(i) ==
    /\ Running(i)
    /\ workers[i].pc = "origin"
    /\ workers' = [workers EXCEPT ![i].pc = "notify", ![i].outcome = "error"]
    /\ response_data' =
         Store(response_data, workers[i].req_id, ErrorResponse(MsgOrigin))
    /\ UNCHANGED <<request_data, connection_stats, connected_devices, mtu,
                   notifying, current_value, emitted, last_write,
                   read_result, sent, nwrites, nreads,
                   status_vars>>

\* The origin never answers: requests.request is called without a timeout,
\* so the thread stays in the call.
WorkerOriginHangs(i) ==
    /\ Running(i)
    /\ workers[i].pc = "origin"
    /\ workers' = [workers EXCEPT ![i].pc = "blocked"]
    /\ UNCHANGED <<request_data, response_data, connection_stats,
                   connected_devices, mtu, notifying, current_value, emitted,
                   last_write, read_result, sent, nwrites, nreads,
                   status_vars>>

(***************************************************************************)
(* _notify_response_ready and HTTPResponseCharacteristic.set_value         *)
(***************************************************************************)
\* notify_data: the ID bytes and the status byte 1 ("response ready").
NotifyData(req_id) == FromHex(req_id) \o <<ReadyStatus>>

\* One PropertiesChanged signal per entry of self.notifying (the bus is
\* taken to accept every signal).
RECURSIVE Repeat(_, _)
Repeat(x, n) == IF n = 0 THEN << >> ELSE <<x>> \o Repeat(x, n - 1)

set_value(value, subscribers) == Repeat(value, Cardinality(subscribers))

WorkerNotify(i) ==
    /\ Running(i)
    /\ workers[i].pc = "notify"
    /\ LET value == NotifyData(workers[i].req_id)
       IN  /\ current_value' = value
           /\ emitted' = emitted \o set_value(value, notifying)
    /\ workers' = [workers EXCEPT ![i].pc = "done"]
    /\ UNCHANGED <<request_data, response_data, connection_stats,
                   connected_devices, mtu, notifying, last_write,
                   read_result, sent, nwrites, nreads,
                   status_vars>>

(***************************************************************************)
(* HTTPResponseCharacteristic.ReadValue, StartNotify, StopNotify           *)
(***************************************************************************)
\* ReadMtu taking every MTU a read reports.
ReadMtuUnchecked(cur, m) == IF m > 0 THEN set_mtu(m) ELSE cur

\* The MTU after a read reporting m (0: no 'mtu' option).
ReadMtu(cur, m) == IF m > MinMtu /\ m <= MaxMtu THEN set_mtu(m) ELSE cur

\* The bytes a read returns.
ReadChunk(table, req_id, offset, max_chunk_size) ==
    IF req_id = NoReqId THEN << >>
    ELSE IF req_id \notin DOMAIN table THEN << >>
    ELSE IF offset >= Len(table[req_id]) THEN << >>
    ELSE Slice(table[req_id], offset, offset + max_chunk_size)

ReadValue(offset, device, req_id, m) ==
    /\ nreads' = nreads + 1
    /\ LET cs1 == RegisterDevice(Bookkeeping, device)
           mtu1 == ReadMtu(mtu, m)
           chunk == ReadChunk(response_data, req_id, offset,
                              get_max_attribute_size(mtu1))
           cs2 == IF chunk # << >>
                  THEN update_connection_stats(cs1, None, None, Len(chunk), 0)
                  ELSE cs1
       IN  /\ mtu' = mtu1
           /\ Booked(cs2)
           /\ read_result' =
                [req_id |-> req_id, offset |-> offset, mtu |-> m,
                 device |-> device, chunk |-> chunk]
    /\ UNCHANGED <<request_data, response_data, notifying, current_value,
                   workers, emitted, last_write, sent, nwrites,
                   status_notifying, status_read>>

StartNotify(sender) ==
    /\ notifying' = notifying \cup {sender}
    /\ UNCHANGED <<request_data, response_data, connection_stats,
                   connected_devices, mtu, current_value, workers, emitted,
                   last_write, read_result, sent, nwrites, nreads,
                   status_vars>>

StopNotify(sender) ==
    /\ notifying' = notifying \ {sender}
    /\ UNCHANGED <<request_data, response_data, connection_stats,
                   connected_devices, mtu, current_value, workers, emitted,
                   last_write, read_result, sent, nwrites, nreads,
                   status_vars>>

(***************************************************************************)
(* StatusCharacteristic: Value, ReadValue, StartNotify, StopNotify         *)
(***************************************************************************)
\* The Value property: the document serialized under stats_lock.
StatusValue ==
    /\ LET status_json ==
               StatusJson(connection_stats, last_status_update # 0)
       IN  status_read' =
             [n |-> status_read.n + 1, offset |-> 0, device |-> None,
              status_json |-> status_json, value |-> status_json]
    /\ UNCHANGED <<request_data, response_data, connection_stats,
                   connected_devices, mtu, notifying, current_value, workers,
                   emitted, last_write, read_result, sent, nwrites, nreads,
                   last_status_update, status_notifying, status_rebuild>>

\* ReadValue of the Status characteristic: the device is registered, the
\* counters are serialized under stats_lock, and the bytes from offset on
\* are returned, at most get_max_attribute_size() of them.
StatusReadValue(offset, device) ==
    /\ nreads' = nreads + 1
    /\ LET cs1 == RegisterDevice(Bookkeeping, device)
           status_json == StatusJson(cs1.stats, cs1.last_status_update # 0)
       IN  /\ Booked(cs1)
           /\ status_read' =
                [n |-> status_read.n + 1, offset |-> offset,
                 device |-> device, status_json |-> status_json,
                 value |-> IF offset >= Len(status_json) THEN << >>
                           ELSE Slice(status_json, offset,
                                      offset + get_max_attribute_size(mtu))]
    /\ UNCHANGED <<request_data, response_data, mtu, notifying,
                   current_value, workers, emitted, last_write, read_result,
                   sent, nwrites, status_notifying>>

StatusStartNotify(sender) ==
    /\ status_notifying' = status_notifying \cup {sender}
    /\ UNCHANGED <<request_data, response_data, connection_stats,
                   connected_devices, mtu, notifying, current_value, workers,
                   emitted, last_write, read_result, sent, nwrites, nreads,
                   last_status_update, status_rebuild, status_read>>

StatusStopNotify(sender) ==
    /\ status_notifying' = status_notifying \ {sender}
    /\ UNCHANGED <<request_data, response_data, connection_stats,
                   connected_devices, mtu, notifying, current_value, workers,
                   emitted, last_write, read_result, sent, nwrites, nreads,
                   last_status_update, status_rebuild, status_read>>

(***************************************************************************)
(* The world around the service.                                           *)
(***************************************************************************)
\* d seconds pass.
Tick(d) ==
    /\ now' = now + d
    /\ UNCHANGED <<service_vars, client, proc, last_call, link, bench>>

\* A central connects to the adapter, or its connection ends for good.  BlueZ
\* calls no method of the application for either event, and the
\* application subscribes to no signal of BlueZ.
CentralConnects(device) ==
    /\ link[device] = "never"
    /\ link' = [link EXCEPT ![device] = "up"]
    /\ UNCHANGED <<service_vars, client, proc, now, last_call, bench>>

CentralDisconnects(device) ==
    /\ link[device] = "up"
    /\ link' = [link EXCEPT ![device] = "down"]
    /\ UNCHANGED <<service_vars, client, proc, now, last_call, bench>>

\* update_connection_stats called with these arguments.
StatsCall(device_path, connected, bytes_sent, bytes_received) ==
    /\ last_call' =
         [device_path |-> device_path, connected |-> connected,
          bytes_sent |-> bytes_sent, bytes_received |-> bytes_received,
          n |-> last_call.n + 1,
          before |-> [stats |-> connection_stats,
                      devices |-> connected_devices]]
    /\ Booked(update_connection_stats(Bookkeeping, device_path, connected,
                                      bytes_sent, bytes_received))
    /\ UNCHANGED <<request_data, response_data, mtu, notifying,
                   current_value, workers, emitted, last_write, read_result,
                   sent, nwrites, nreads, status_notifying, status_read,
                   client, proc, now, link, bench>>

(***************************************************************************)
(* The client: src/client/test_ble_client.py                               *)
(***************************************************************************)
\* if len(data) < 17; uuid_bytes = data[:16]
ClientHeaderLen == 17
ClientIdLen == 16
\* max_chunk_size = 512 - 17
ClientMaxChunk == 512 - 17

\* "GET", "/", "/x" and " HTTP/1.1"
MethodGet == <<71, 69, 84>>
PathRoot == <<47>>
PathX == <<47, 120>>
ClientPaths == {PathRoot, PathX}
HttpVersion == <<32, 72, 84, 84, 80, 47, 49, 46, 49>>

\* The request text of send_http_request(peripheral, method, path), as
\* main calls it: no headers, no body.
BuildRequest(method, path) ==
    method \o <<SP>> \o path \o HttpVersion \o CRLF \o CRLF

\* ClientChunks setting the LAST flag on the chunk that is not full.
RECURSIVE ClientChunksShortIsLast(_, _, _, _)
ClientChunksShortIsLast(request_id, request_bytes, i, total_chunks) ==
    IF i >= total_chunks THEN << >>
    ELSE LET start == i * ClientMaxChunk
             end == IF start + ClientMaxChunk < Len(request_bytes)
                    THEN start + ClientMaxChunk ELSE Len(request_bytes)
             flags == (IF i = 0 THEN 1 ELSE 0)
                        + (IF end - start < ClientMaxChunk THEN 2 ELSE 0)
         IN  <<request_id \o <<flags>> \o Slice(request_bytes, start, end)>>
                 \o ClientChunksShortIsLast(request_id, request_bytes, i + 1,
                                            total_chunks)

\* The frames of the write loop, from chunk i (0-based) on.
RECURSIVE ClientChunks(_, _, _, _)
ClientChunks(request_id, request_bytes, i, total_chunks) ==
    IF i >= total_chunks THEN << >>
    ELSE LET start == i * ClientMaxChunk
             end == IF start + ClientMaxChunk < Len(request_bytes)
                    THEN start + ClientMaxChunk ELSE Len(request_bytes)
             flags == (IF i = 0 THEN 1 ELSE 0)
                        + (IF i = total_chunks - 1 THEN 2 ELSE 0)
         IN  <<request_id \o <<flags>> \o Slice(request_bytes, start, end)>>
                 \o ClientChunks(request_id, request_bytes, i + 1,
                                 total_chunks)

\* str.rstrip('\0')
RECURSIVE RStripNul(_)
RStripNul(s) ==
    IF s # << >> /\ s[Len(s)] = 0 THEN RStripNul(Slice(s, 0, Len(s) - 1))
    ELSE s

\* NotificationDelegate.handleNotification on the delegate fields of c, for
\* data whose first 16 bytes decode as UTF-8.
handleNotification(c, data) ==
    IF Len(data) < ClientHeaderLen THEN c
    ELSE
    LET uuid_str == RStripNul(Slice(data, 0, ClientIdLen))
        flags == data[ClientIdLen + 1]
        chunk_data == Slice(data, ClientHeaderLen, Len(data))
        is_first == flags % 2 = 1
        is_last == (flags \div 2) % 2 = 1
        done == [c EXCEPT !.response_complete = @ \/ is_last]
    IN  IF is_first
        THEN [done EXCEPT !.response_data = chunk_data,
                          !.current_uuid = uuid_str]
        ELSE IF uuid_str = c.current_uuid
        THEN [done EXCEPT !.response_data = @ \o chunk_data]
        ELSE c

\* 0-based index of the first "\r\n\r\n" in s from 1-based k on, -1 if none
\* (bytes.find).
RECURSIVE FindBlankLine(_, _)
FindBlankLine(s, k) ==
    IF k + 3 > Len(s) THEN -1
    ELSE IF SubSeq(s, k, k + 3) = CRLF \o CRLF THEN k - 1
    ELSE FindBlankLine(s, k + 1)

\* int(text) for text of decimal digits: -1 when int() raises.
RECURSIVE ParseInt(_, _)
ParseInt(text, acc) ==
    IF text = << >> THEN acc
    ELSE IF Head(text) \notin 48..57 THEN -1
    ELSE ParseInt(Tail(text), 10 * acc + Head(text) - 48)

\* status_line.split(' ', 2)
SplitSpace2(s) ==
    LET a == FindByte(s, SP, 1)
        b == IF a = 0 THEN 0 ELSE FindByte(s, SP, a + 1)
    IN  IF a = 0 THEN <<s>>
        ELSE IF b = 0 THEN <<Slice(s, 0, a - 1), Slice(s, a, Len(s))>>
        ELSE <<Slice(s, 0, a - 1), Slice(s, a, b - 1), Slice(s, b, Len(s))>>

\* The header dict of the non-empty lines of lines[from ..].
RECURSIVE ClientHeaders(_, _, _)
ClientHeaders(lines, from, acc) ==
    IF from > Len(lines) THEN acc
    ELSE IF lines[from] = << >> THEN ClientHeaders(lines, from + 1, acc)
    ELSE LET line == lines[from]
             c == FindByte(line, COLON, 1)
         IN  ClientHeaders(lines, from + 1,
                 DictSet(acc, Strip(Slice(line, 0, c - 1)),
                              Strip(Slice(line, c, Len(line)))))

\* "Parse HTTP response" of send_http_request: how the call ends
\* ("invalid": no header separator, None is returned; "exception": the
\* decode or the unpacking of a header line raises, None is returned;
\* "response") and the dict returned.
ParseResponse(data) ==
    LET header_end == FindBlankLine(data, 1)
        headers_data == Slice(data, 0, header_end)
        lines == SplitCRLF(headers_data)
        parts == SplitSpace2(lines[1])
        code == IF Len(parts) = 3 /\ parts[2] # << >>
                THEN ParseInt(parts[2], 0) ELSE -1
    IN  IF header_end < 0
        THEN [outcome |-> "invalid", response |-> NoResponse]
        ELSE IF ~Utf8Ok(headers_data)
                  \/ \E k \in 2..Len(lines) :
                        lines[k] # << >> /\ FindByte(lines[k], COLON, 1) = 0
        THEN [outcome |-> "exception", response |-> NoResponse]
        ELSE [outcome |-> "response",
              response |->
                [status_line |-> lines[1],
                 headers |-> ClientHeaders(lines, 2, << >>),
                 body |-> Slice(data, header_end + 4,
                                Len(data)),
                 status_code |-> code,
                 reason |-> IF code >= 0 THEN parts[3] ELSE << >>]]

\* connect_to_device: the write of 01 00 to the CCCD of the Response
\* characteristic, which BlueZ turns into StartNotify.
ClientConnect(sender) ==
    /\ client.pc = "disconnected"
    /\ StartNotify(sender)
    /\ client' = [client EXCEPT !.pc = "idle"]

\* send_http_request up to its write loop.
ClientBegin(request_id, path) ==
    /\ client.pc \in {"idle", "done"}
    /\ client.nrequests < MaxClientRequests
    /\ LET request_bytes == BuildRequest(MethodGet, path)
           total_chunks == CeilDiv(Len(request_bytes), ClientMaxChunk)
       IN  client' =
             [client EXCEPT
                !.pc = "sending", !.nrequests = @ + 1,
                !.chunks = ClientChunks(request_id, request_bytes, 0,
                                        total_chunks),
                !.response_complete = FALSE, !.response_data = << >>,
                !.current_uuid = request_id,
                !.outcome = "none", !.response = NoResponse]
    /\ UNCHANGED service_vars

\* request_char.write(chunk, withResponse=True)
ClientWrite(device) ==
    /\ client.pc = "sending"
    /\ WriteValue(Head(client.chunks), device)
    /\ client' = [client EXCEPT
                    !.chunks = Tail(@),
                    !.pc = IF Len(client.chunks) = 1 THEN "waiting"
                           ELSE "sending"]

\* waitForNotifications hands the next notification to the delegate; a
\* UnicodeDecodeError of the delegate ends send_http_request in its
\* except block.
ClientNotification ==
    /\ client.pc = "waiting"
    /\ client.delivered < Len(emitted)
    /\ LET data == emitted[client.delivered + 1]
           c == [client EXCEPT !.delivered = @ + 1]
       IN  client' =
             IF Len(data) >= ClientHeaderLen
                  /\ ~Utf8Ok(Slice(data, 0, ClientIdLen))
             THEN [c EXCEPT !.pc = "done", !.outcome = "exception"]
             ELSE handleNotification(c, data)
    /\ UNCHANGED service_vars

\* Nothing more will reach the client: every notification emitted was
\* handled and no thread is left that will emit one.
Quiet ==
    /\ client.delivered = Len(emitted)
    /\ \A i \in 1..Len(workers) : workers[i].pc \in {"done", "blocked"}

\* The wait loop ends: the response is complete and is parsed, or the 30
\* seconds have passed (taken to pass only once nothing more can arrive)
\* and None is returned.
ClientWaitEnds ==
    /\ client.pc = "waiting"
    /\ client.response_complete \/ Quiet
    /\ client' =
         IF ~client.response_complete
         THEN [client EXCEPT !.pc = "done", !.outcome = "timeout"]
         ELSE LET r == ParseResponse(client.response_data)
              IN  [client EXCEPT !.pc = "done", !.outcome = r.outcome,
                                 !.response = r.response]
    /\ UNCHANGED service_vars

(***************************************************************************)
(* The process: main() and the __main__ block                              *)
(***************************************************************************)
Signals == {"SIGINT", "SIGTERM"}

\* sys.exit(1), and the exit status of a traceback
ExitFailure == 1
\* the end of the script
ExitSuccess == 0
\* the status of a process killed by SIGTERM, as its parent sees it
ExitSigterm == 128 + 15

\* open(status file, 'w'): 'running' and the PID.
ProcStart ==
    /\ proc.pc = "start"
    /\ proc' = [proc EXCEPT !.pc = "find_adapter", !.status_file = "running"]
    /\ UNCHANGED <<service_vars, client, world>>

\* The bus is connected and find_adapter returns a path, found with its
\* Powered property, or None: sys.exit(1).
ProcFindAdapter(found, powered) ==
    /\ proc.pc = "find_adapter"
    /\ proc' = IF found
               THEN [proc EXCEPT !.pc = "power", !.adapter = TRUE,
                                 !.powered = powered]
               ELSE [proc EXCEPT !.pc = "exited", !.exit_code = ExitFailure]
    /\ UNCHANGED <<service_vars, client, world>>

\* ProcPowerOn without the write of Powered.
ProcPowerOnSkipped ==
    /\ proc.pc = "power"
    /\ proc' = [proc EXCEPT !.pc = "register_app"]
    /\ UNCHANGED <<service_vars, client, world>>

\* Powered is read and, when it is false, set.
ProcPowerOn ==
    /\ proc.pc = "power"
    /\ proc' = [proc EXCEPT
                  !.pc = "register_app", !.powered = TRUE,
                  !.calls = IF proc.powered THEN @
                            ELSE Append(@, "SetPowered")]
    /\ UNCHANGED <<service_vars, client, world>>

\* The objects are exported and RegisterApplication returns, or raises
\* (the exception leaves main and run_until_complete: exit status 1).
ProcRegisterApplication(ok) ==
    /\ proc.pc = "register_app"
    /\ proc' = IF ok
               THEN [proc EXCEPT !.pc = "register_adv", !.application = TRUE,
                                 !.calls = Append(@, "RegisterApplication")]
               ELSE [proc EXCEPT !.pc = "exited", !.exit_code = ExitFailure,
                                 !.calls = Append(@, "RegisterApplication")]
    /\ UNCHANGED <<service_vars, client, world>>

\* RegisterAdvertisement returns, and main runs on without suspending
\* through add_signal_handler to its first sleep; or the call raises.
ProcRegisterAdvertisement(ok) ==
    /\ proc.pc = "register_adv"
    /\ proc' = IF ok
               THEN [proc EXCEPT !.pc = "serving", !.advertisement = TRUE,
                                 !.handlers = TRUE,
                                 !.calls = Append(@, "RegisterAdvertisement")]
               ELSE [proc EXCEPT !.pc = "exited", !.exit_code = ExitFailure,
                                 !.calls = Append(@, "RegisterAdvertisement")]
    /\ UNCHANGED <<service_vars, client, world>>

\* A termination signal arrives.
\*  - Handlers installed: signal_handler calls loop.stop(); main is left
\*    suspended in its sleep, run_until_complete finds its future not done
\*    and raises RuntimeError, which the __main__ block does not catch:
\*    loop.close(), traceback, exit status 1.
\*  - Not installed, SIGINT: KeyboardInterrupt leaves run_until_complete,
\*    is caught by the __main__ block, and the script ends: exit status 0.
\*  - Not installed, SIGTERM: the default disposition ends the process.
\* In the first two cases the interpreter shuts down ("joining").
ProcSignal(sig) ==
    /\ proc.pc \notin {"joining", "finalizing", "exited"}
    /\ proc' =
         IF proc.handlers
         THEN [proc EXCEPT !.pc = "joining", !.signal = sig,
                           !.exit_code = ExitFailure]
         ELSE IF sig = "SIGINT"
         THEN [proc EXCEPT !.pc = "joining", !.signal = sig,
                           !.exit_code = ExitSuccess]
         ELSE [proc EXCEPT !.pc = "exited", !.signal = sig,
                           !.exit_code = ExitSigterm]
    /\ UNCHANGED <<service_vars, client, world>>

\* Interpreter shutdown waits for the _process_http_request threads, which
\* are not daemon threads.
ProcThreadsJoined ==
    /\ proc.pc = "joining"
    /\ \A i \in 1..Len(workers) : workers[i].pc = "done"
    /\ proc' = [proc EXCEPT !.pc = "finalizing"]
    /\ UNCHANGED <<service_vars, client, world>>

\* ProcFinalize with the two unregister statements exchanged.
ProcFinalizeAppFirst(rewritten) ==
    /\ proc.pc = "finalizing"
    /\ proc' = [proc EXCEPT
                  !.pc = "exited",
                  !.status_file = IF proc.handlers /\ rewritten
                                  THEN "stopped" ELSE @,
                  !.calls = IF proc.handlers
                            THEN @ \o <<"UnregisterApplication",
                                        "UnregisterAdvertisement">>
                            ELSE @]
    /\ UNCHANGED <<service_vars, client, world>>

\* The suspended main coroutine is destroyed.  When it was suspended in
\* its sleep loop its finally block runs now, on a closed event loop: the
\* two unregister calls are attempted in the order of the block, the
\* advertisement and then the application, and cannot be made (each
\* raises, is caught and logged), and the rewrite of the status file
\* happens or fails with the state of the interpreter (rewritten).
\* Suspended before the try statement, nothing runs.
ProcFinalize(rewritten) ==
    /\ proc.pc = "finalizing"
    /\ proc' = [proc EXCEPT
                  !.pc = "exited",
                  !.status_file = IF proc.handlers /\ rewritten
                                  THEN "stopped" ELSE @,
                  !.calls = IF proc.handlers
                            THEN @ \o <<"UnregisterAdvertisement",
                                        "UnregisterApplication">>
                            ELSE @]
    /\ UNCHANGED <<service_vars, client, world>>

\* The event loop runs and BlueZ knows the application: the GATT method
\* handlers can be called.
Listening == proc.application /\ proc.pc \in {"register_adv", "serving"}

\* The threads of the process run.
Alive == proc.pc # "exited"

(***************************************************************************)
(* Specifications.                                                         *)
(***************************************************************************)
\* Single-frame requests (flags 0x03): a well-formed request, a request
\* line of one part, a request without the blank line, a request with a
\* header line without a colon, and bytes that are not UTF-8.
RequestPayloads ==
    {PayLine \o PayEnd, PayEnd, PayLine, PayLine \o PayBadHeader \o PayEnd,
     PayBinary}
Requests == {MkFrame(id, 3, p) : id \in Ids, p \in RequestPayloads}

\* The request path: requests are written and the threads they start run,
\* interleaved with each other and with subscriptions to the Response
\* characteristic.
Next ==
    \/ \E value \in Requests :
          nwrites < MaxRequests /\ WriteValue(value, None) /\ UNCHANGED env
    \/ \E i \in 1..MaxWrites : WorkerParse(i) /\ UNCHANGED env
    \/ \E i \in 1..MaxWrites, r \in OriginReplies :
          WorkerReply(i, r) /\ UNCHANGED env
    \/ \E i \in 1..MaxWrites : WorkerOriginError(i) /\ UNCHANGED env
    \/ \E i \in 1..MaxWrites : WorkerOriginHangs(i) /\ UNCHANGED env
    \/ \E i \in 1..MaxWrites : WorkerNotify(i) /\ UNCHANGED env
    \/ \E sender \in Senders : StartNotify(sender) /\ UNCHANGED env
    \/ \E sender \in Senders : StopNotify(sender) /\ UNCHANGED env

Spec == Init /\ [][Next]_vars

\* The reassembly layer: every value of WriteValues may be written, in any
\* order.  The threads started are recorded and left at their start.
NextFrames ==
    \E value \in WriteValues :
        nwrites < MaxWrites /\ WriteValue(value, None) /\ UNCHANGED env

SpecFrames == Init /\ [][NextFrames]_vars


\* The read path: a central sends requests under one ID (a well-formed one,
\* answered in 27 bytes, and one without the blank line, answered by the
\* 76-byte error response), the threads run, and centrals read the
\* Response characteristic with every combination of options.
ReadRequests == {MkFrame(IdA, 3, p) : p \in {PayLine \o PayEnd, PayLine}}

NextRead ==
    \/ \E value \in ReadRequests :
          nwrites < MaxReadRequests /\ WriteValue(value, None)
              /\ UNCHANGED env
    \/ \E i \in 1..MaxWrites : WorkerParse(i) /\ UNCHANGED env
    \/ \E i \in 1..MaxWrites, r \in OriginReplies :
          WorkerReply(i, r) /\ UNCHANGED env
    \/ \E i \in 1..MaxWrites : WorkerOriginError(i) /\ UNCHANGED env
    \/ \E i \in 1..MaxWrites : WorkerNotify(i) /\ UNCHANGED env
    \/ \E offset \in OffsetOpts, req_id \in ReqIdOpts, m \in MtuOpts :
          nreads < MaxReads /\ ReadValue(offset, None, req_id, m)
              /\ UNCHANGED env

SpecRead == Init /\ [][NextRead]_vars

\* A central reads the response of IdA from offset 0, each read at the
\* offset its chunks have reached so far and reporting any MTU, until a read
\* returns nothing.
LoopMtuOpts == {0, 3, 23, 24, 517, 518}

CentralReads(m) ==
    /\ ~reader.ended
    /\ Hex(IdA) \in DOMAIN response_data
    /\ ReadValue(reader.offset, None, Hex(IdA), m)
    /\ reader' = [offset |-> reader.offset + Len(read_result'.chunk),
                  got |-> reader.got \o read_result'.chunk,
                  reads |-> reader.reads + 1,
                  ended |-> read_result'.chunk = << >>]
    /\ UNCHANGED <<client, proc, now, last_call, link, codec, lock_vars,
                   framer>>

\* One request is written under IdA (answered in 27 bytes by the origin, or
\* by the 76-byte error response), its thread runs, and the central reads.
NextLoop ==
    \/ \E value \in ReadRequests :
          nwrites = 0 /\ WriteValue(value, None) /\ UNCHANGED env
    \/ \E i \in 1..MaxWrites : WorkerParse(i) /\ UNCHANGED env
    \/ \E i \in 1..MaxWrites, r \in OriginReplies :
          WorkerReply(i, r) /\ UNCHANGED env
    \/ \E i \in 1..MaxWrites : WorkerOriginError(i) /\ UNCHANGED env
    \/ \E i \in 1..MaxWrites : WorkerNotify(i) /\ UNCHANGED env
    \/ \E m \in LoopMtuOpts : CentralReads(m)

\* The central goes on reading as long as it has not seen the empty read.
SpecLoop ==
    Init /\ [][NextLoop]_vars /\ WF_vars(\E m \in LoopMtuOpts : CentralReads(m))

\* The counters: a central writes a complete request, a FIRST frame or a
\* value shorter than the header, the threads run with an origin that
\* answers, and centrals subscribe and read the response, each call with
\* or without its device path.
StatsWrites ==
    {MkFrame(IdA, 3, PayLine \o PayEnd), MkFrame(IdA, 1, PayLine), IdA}
StatsDevices == {None, "dev1"}

NextStats ==
    \/ \E value \in StatsWrites, device \in StatsDevices :
          nwrites < MaxRequests /\ WriteValue(value, device)
              /\ UNCHANGED env
    \/ \E i \in 1..MaxWrites : WorkerParse(i) /\ UNCHANGED env
    \/ \E i \in 1..MaxWrites, r \in OriginReplies :
          WorkerReply(i, r) /\ UNCHANGED env
    \/ \E i \in 1..MaxWrites : WorkerNotify(i) /\ UNCHANGED env
    \/ \E sender \in Senders : StartNotify(sender) /\ UNCHANGED env
    \/ \E offset \in OffsetOpts, device \in StatsDevices :
          nreads < MaxReads /\ ReadValue(offset, device, Hex(IdA), 0)
              /\ UNCHANGED env

SpecStats == Init /\ [][NextStats]_vars

\* The repository's client against the service: it subscribes, sends GET
\* requests under its IDs and waits; the origin answers or refuses.
NextClient ==
    \/ \E sender \in Senders :
          ClientConnect(sender) /\ UNCHANGED <<proc, world>>
    \/ \E request_id \in ClientIds, path \in ClientPaths :
          ClientBegin(request_id, path) /\ UNCHANGED <<proc, world>>
    \/ \E device \in Devices :
          nwrites < MaxWrites /\ ClientWrite(device)
              /\ UNCHANGED <<proc, world>>
    \/ ClientNotification /\ UNCHANGED <<proc, world>>
    \/ ClientWaitEnds /\ UNCHANGED <<proc, world>>
    \/ \E i \in 1..MaxWrites : WorkerParse(i) /\ UNCHANGED env
    \/ \E i \in 1..MaxWrites, r \in OriginReplies :
          WorkerReply(i, r) /\ UNCHANGED env
    \/ \E i \in 1..MaxWrites : WorkerOriginError(i) /\ UNCHANGED env
    \/ \E i \in 1..MaxWrites : WorkerNotify(i) /\ UNCHANGED env

SpecClient == Init /\ [][NextClient]_vars

\* The life of the process: it starts, serves single-frame requests under
\* one ID with an origin that answers, refuses or hangs, and receives a
\* termination signal at any point.
LifeRequests == {MkFrame(IdA, 3, p) : p \in {PayLine \o PayEnd, PayLine}}

NextLife ==
    \/ ProcStart
    \/ \E found, powered \in BOOLEAN : ProcFindAdapter(found, powered)
    \/ ProcPowerOn
    \/ \E ok \in BOOLEAN : ProcRegisterApplication(ok)
    \/ \E ok \in BOOLEAN : ProcRegisterAdvertisement(ok)
    \/ \E sig \in Signals : ProcSignal(sig)
    \/ ProcThreadsJoined
    \/ \E rewritten \in BOOLEAN : ProcFinalize(rewritten)
    \/ \E value \in LifeRequests :
          Listening /\ nwrites < MaxRequests /\ WriteValue(value, None)
              /\ UNCHANGED env
    \/ \E sender \in Senders : Listening /\ StartNotify(sender)
                                   /\ UNCHANGED env
    \/ \E i \in 1..MaxWrites : Alive /\ WorkerParse(i) /\ UNCHANGED env
    \/ \E i \in 1..MaxWrites, r \in OriginReplies :
          Alive /\ WorkerReply(i, r) /\ UNCHANGED env
    \/ \E i \in 1..MaxWrites : Alive /\ WorkerOriginError(i)
                                  /\ UNCHANGED env
    \/ \E i \in 1..MaxWrites : Alive /\ WorkerOriginHangs(i)
                                  /\ UNCHANGED env
    \/ \E i \in 1..MaxWrites : Alive /\ WorkerNotify(i) /\ UNCHANGED env

SpecLife == Init /\ [][NextLife]_vars

\* Load: a central writes one frame under each of MaxFill IDs, all of them
\* FIRST frames of requests it does not finish (flags 0x01) or all of them
\* complete requests (flags 0x03); the origin has not answered yet, so
\* every thread started is still running.
FillId(k) == <<k \div 256, k % 256>> \o [j \in 1..(IdLen - 2) |-> 0]
FillFrame(k, flags) ==
    MkFrame(FillId(k), flags,
            IF IsFinal(flags) THEN PayLine \o PayEnd ELSE PayLine)

NextFill ==
    \E flags \in {1, 3} :
        /\ nwrites < MaxFill
        /\ nwrites > 0 => FrameFlags(last_write.value) = flags
        /\ WriteValue(FillFrame(nwrites, flags), None)
        /\ UNCHANGED env

SpecFill == Init /\ [][NextFill]_vars

\* The bookkeeping: update_connection_stats is called with every
\* combination of its arguments, and by the handlers that call it (writes,
\* reads of the response, reads of the status) while the threads run;
\* MaxCalls bounds the calls and handlers together.
ConnectedOpts == {None, "True", "False"}
BytesSentOpts == {0, 20}
BytesReceivedOpts == {0, 17}
Booking == last_call.n + nwrites + nreads < MaxCalls

NextBook ==
    \/ \E device_path \in DeviceOpts, connected \in ConnectedOpts,
          bytes_sent \in BytesSentOpts, bytes_received \in BytesReceivedOpts :
          Booking /\ StatsCall(device_path, connected, bytes_sent,
                               bytes_received)
    \/ \E value \in StatsWrites, device \in StatsDevices :
          Booking /\ WriteValue(value, device) /\ UNCHANGED env
    \/ \E device \in StatsDevices :
          Booking /\ nreads < MaxReads /\ ReadValue(0, device, Hex(IdA), 0)
              /\ UNCHANGED env
    \/ \E offset \in OffsetOpts, device \in StatsDevices :
          Booking /\ StatusReadValue(offset, device) /\ UNCHANGED env
    \/ \E i \in 1..MaxWrites : WorkerParse(i) /\ UNCHANGED env
    \/ \E i \in 1..MaxWrites, r \in OriginReplies :
          WorkerReply(i, r) /\ UNCHANGED env
    \/ \E i \in 1..MaxWrites : WorkerNotify(i) /\ UNCHANGED env

SpecBook == Init /\ [][NextBook]_vars

\* A slow origin: well-formed single-frame requests under two IDs, and an
\* origin that answers each or leaves its thread waiting.
(***************************************************************************)
(* The locks: which thread executes which with-statements, in what order.  *)
(***************************************************************************)
Acquire(l) == <<"acquire", l>>
Release(l) == <<"release", l>>
\* threading.Thread(...).start()
StartThread == <<"start", "thread">>
\* requests.request(...): the thread is in its origin call, holding nothing
CallOrigin == <<"call", "origin">>

\* update_connection_stats: the whole body is one with-statement on
\* stats_lock; notify_status_change, called inside it, takes no lock.
UpdateStatsLocks == <<Acquire("stats_lock"), Release("stats_lock")>>

\* if 'device' in options: update_connection_stats(device_path, connected=True)
RegisterLocks(device) == IF device THEN UpdateStatsLocks ELSE << >>

\* WriteValue for a value of at least 17 bytes (long) or less, and with the
\* LAST flag or without.
WriteValueLocks(device, long, last) ==
    RegisterLocks(device) \o UpdateStatsLocks
       \o (IF ~long THEN << >>
           ELSE <<Acquire("data_lock")>>
                   \o (IF last THEN <<StartThread>> ELSE << >>)
                   \o <<Release("data_lock")>>)

\* ReadValueLocks with the counters brought up to date before the table
\* is looked at, and stats_lock held until the chunk is cut.
ReadValueLocksStatsOutside(device, req_id, found) ==
    RegisterLocks(device)
       \o (IF ~req_id THEN << >>
           ELSE IF found
           THEN <<Acquire("stats_lock"), Acquire("data_lock"),
                  Release("data_lock"), Release("stats_lock")>>
           ELSE <<Acquire("data_lock"), Release("data_lock")>>)

\* ReadValue of the Response characteristic: with a req_id option or
\* without, and finding bytes at the offset or not.
ReadValueLocks(device, req_id, found) ==
    RegisterLocks(device)
       \o (IF ~req_id THEN << >>
           ELSE <<Acquire("data_lock")>>
                   \o (IF found THEN UpdateStatsLocks ELSE << >>)
                   \o <<Release("data_lock")>>)

\* ReadValue of the Status characteristic.
StatusReadValueLocks(device) ==
    RegisterLocks(device) \o <<Acquire("stats_lock"), Release("stats_lock")>>

\* _process_http_request: a request line it can parse (the origin call,
\* then the store of the response or of the 500) or not (it returns).
WorkerLocks(parsed) ==
    IF parsed
    THEN <<CallOrigin, Acquire("data_lock"), Release("data_lock")>>
    ELSE << >>

\* What the event loop thread can be asked to run.
HandlerCalls ==
    {[handler |-> "WriteValue", ops |-> WriteValueLocks(d, long, last)] :
        d, long, last \in BOOLEAN}
      \cup {[handler |-> "ReadValue", ops |-> ReadValueLocks(d, q, f)] :
              d, q, f \in BOOLEAN}
      \cup {[handler |-> "StatusReadValue", ops |-> StatusReadValueLocks(d)] :
              d \in BOOLEAN}

IdleThreads == {t \in Threads \ {LoopThread} : threads[t].ops = << >>}
NextOp(t) == IF threads[t].ops = << >> THEN <<"none", "none">>
             ELSE Head(threads[t].ops)
\* The thread after its next statement.
Advance(t) ==
    IF Len(threads[t].ops) = 1 THEN NoHandler
    ELSE [threads[t] EXCEPT !.ops = Tail(@)]

\* BlueZ calls a method handler: the event loop thread, which runs one
\* handler at a time, starts on it.
LockCall(call) ==
    /\ threads[LoopThread].ops = << >>
    /\ StartThread \in {call.ops[k] : k \in 1..Len(call.ops)}
          => IdleThreads # {}
    /\ threads' = [threads EXCEPT ![LoopThread] = call]
    /\ UNCHANGED <<service_vars, client, proc, now, last_call, link, codec,
                   locks, reader, framer>>

\* with l: entered when no thread holds l.
LockAcquire(t) ==
    /\ NextOp(t)[1] = "acquire"
    /\ locks[NextOp(t)[2]] = Free
    /\ locks' = [locks EXCEPT ![NextOp(t)[2]] = t]
    /\ threads' = [threads EXCEPT ![t] = Advance(t)]
    /\ UNCHANGED <<service_vars, client, proc, now, last_call, link, codec,
                   reader, framer>>

\* The with-statement is left.
LockRelease(t) ==
    /\ NextOp(t)[1] = "release"
    /\ locks' = [locks EXCEPT ![NextOp(t)[2]] = Free]
    /\ threads' = [threads EXCEPT ![t] = Advance(t)]
    /\ UNCHANGED <<service_vars, client, proc, now, last_call, link, codec,
                   reader, framer>>

\* WriteValue starts the thread of a complete request, inside data_lock.
LockStart(t, parsed) ==
    /\ NextOp(t) = StartThread
    /\ \E w \in IdleThreads :
          threads' = [threads EXCEPT
                        ![t] = Advance(t),
                        ![w] = IF parsed
                               THEN [handler |-> "_process_http_request",
                                     ops |-> WorkerLocks(parsed)]
                               ELSE NoHandler]
    /\ UNCHANGED <<service_vars, client, proc, now, last_call, link, codec,
                   locks, reader, framer>>

\* requests.request returns or raises.
LockOrigin(t) ==
    /\ NextOp(t) = CallOrigin
    /\ threads' = [threads EXCEPT ![t] = Advance(t)]
    /\ UNCHANGED <<service_vars, client, proc, now, last_call, link, codec,
                   locks, reader, framer>>

NextLocks ==
    \/ \E call \in HandlerCalls : LockCall(call)
    \/ \E t \in Threads : LockAcquire(t)
    \/ \E t \in Threads : LockRelease(t)
    \/ \E t \in Threads, parsed \in BOOLEAN : LockStart(t, parsed)
    \/ \E t \in Threads : LockOrigin(t)

\* A thread that can run does run, and a thread blocked on a lock that is
\* released again and again gets it; the origin may never answer, and
\* BlueZ may stop calling.
SpecLocks ==
    /\ Init /\ [][NextLocks]_vars
    /\ \A t \in Threads :
          /\ SF_vars(LockAcquire(t))
          /\ WF_vars(LockRelease(t))
          /\ WF_vars(\E parsed \in BOOLEAN : LockStart(t, parsed))

\* The write loop of send_http_request on its own: requests of the lengths
\* around every multiple of the chunk size, up to MaxChunks chunks, filled
\* with bytes that differ from place to place, under the IDs of the client.
MaxChunks == 3
FramerLengths ==
    {n \in {k * ClientMaxChunk + d : k \in 0..(MaxChunks - 1),
                                     d \in {-1, 0, 1, 2}} : n >= 1}
FramerStrides == {1, 7, 11}
FramerRequest(n, stride) == [k \in 1..n |-> (k * stride) % 251]

InitFramer ==
    /\ InitState
    /\ codec = NoCodec
    /\ framer \in {[NoFramer EXCEPT !.stage = "request", !.request_id = id,
                                    !.request_bytes = FramerRequest(n, st)] :
                      id \in ClientIds, n \in FramerLengths,
                      st \in FramerStrides}

\* total_chunks and the loop that builds the chunks.
FramerSplit ==
    /\ framer.stage = "request"
    /\ LET total_chunks == CeilDiv(Len(framer.request_bytes), ClientMaxChunk)
       IN  framer' = [framer EXCEPT
                        !.stage = "split",
                        !.chunks = ClientChunks(framer.request_id,
                                                framer.request_bytes, 0,
                                                total_chunks)]
    /\ UNCHANGED <<service_vars, client, proc, now, last_call, link, codec,
                   lock_vars, reader>>

NextFramer == FramerSplit
SpecFramer == InitFramer /\ [][NextFramer]_vars

\* The serializer of the service and the parser of the client, one after
\* the other: responses as requests.request returns them (status_code,
\* reason, headers, text) are serialized as _process_http_request does and
\* parsed as send_http_request does.
CodecVersion == <<72, 84, 84, 80, 47, 49, 46, 49>>
CodecCodes == {200, 404}
\* "", "OK", "Not Found"
CodecReasons ==
    {<< >>, <<79, 75>>, <<78, 111, 116, 32, 70, 111, 117, 110, 100>>}
\* no header; X: y; X: a:b; X: y and Z: w; X with the value "y " (the blank
\* the origin sent before CR LF); X with the folded value "a\r\n b"
CodecHeaders ==
    {<< >>,
     << <<(<<88>>), (<<121>>)>> >>,
     << <<(<<88>>), (<<97, 58, 98>>)>> >>,
     << <<(<<88>>), (<<121>>)>>, <<(<<90>>), (<<119>>)>> >>,
     << <<(<<88>>), (<<121, 32>>)>> >>,
     << <<(<<88>>), (<<97, 13, 10, 32, 98>>)>> >>}
\* "", "hi", "a\r\n\r\nb", "\r\nhi"
CodecTexts ==
    {<< >>, <<104, 105>>, <<97, 13, 10, 13, 10, 98>>, <<13, 10, 104, 105>>}
CodecResponses ==
    {[status_code |-> c, reason |-> rs, headers |-> hs, text |-> t] :
        c \in CodecCodes, rs \in CodecReasons, hs \in CodecHeaders,
        t \in CodecTexts}

InitCodec ==
    /\ InitState
    /\ framer = NoFramer
    /\ codec \in {[NoCodec EXCEPT !.stage = "response",
                                  !.http_ver = CodecVersion, !.r = r] :
                     r \in CodecResponses}

\* resp_str ... .encode('utf-8') of _process_http_request
CodecSerialize ==
    /\ codec.stage = "response"
    /\ codec' = [codec EXCEPT !.stage = "stored",
                              !.wire = SerializeResponse(codec.http_ver,
                                                         codec.r)]
    /\ UNCHANGED <<service_vars, client, proc, now, last_call, link, lock_vars,
                   reader, framer>>

\* "Parse HTTP response" of send_http_request
CodecParse ==
    /\ codec.stage = "stored"
    /\ codec' = [codec EXCEPT !.stage = "parsed",
                              !.parsed = ParseResponse(codec.wire)]
    /\ UNCHANGED <<service_vars, client, proc, now, last_call, link, lock_vars,
                   reader, framer>>

NextCodec == CodecSerialize \/ CodecParse
SpecCodec == InitCodec /\ [][NextCodec]_vars

BusyRequests == {MkFrame(id, 3, PayLine \o PayEnd) : id \in Ids}

NextBusy ==
    \/ \E value \in BusyRequests :
          nwrites < MaxRequests /\ WriteValue(value, None) /\ UNCHANGED env
    \/ \E i \in 1..MaxWrites : WorkerParse(i) /\ UNCHANGED env
    \/ \E i \in 1..MaxWrites, r \in OriginReplies :
          WorkerReply(i, r) /\ UNCHANGED env
    \/ \E i \in 1..MaxWrites : WorkerOriginHangs(i) /\ UNCHANGED env
    \/ \E i \in 1..MaxWrites : WorkerNotify(i) /\ UNCHANGED env
    \/ \E sender \in Senders : StartNotify(sender) /\ UNCHANGED env

SpecBusy == Init /\ [][NextBusy]_vars

\* The Status characteristic: time passes while a central writes frames,
\* reports its MTU in a read of the response, subscribes to the status
\* and reads it, through ReadValue and through the Value property.
StatusWrites == {MkFrame(IdA, 1, PayLine)}

NextStatus ==
    \/ now < StartTime + MaxTicks /\ Tick(1)
    \/ \E value \in StatusWrites, device \in StatsDevices :
          nwrites < MaxRequests /\ WriteValue(value, device)
              /\ UNCHANGED env
    \/ mtu = DefaultMtu /\ nreads < MaxReads
          /\ ReadValue(0, None, NoReqId, MaxMtu)
          /\ UNCHANGED env
    \/ \E offset \in OffsetOpts, device \in StatsDevices :
          status_read.n < MaxStatusReads /\ StatusReadValue(offset, device)
              /\ UNCHANGED env
    \/ status_read.n < MaxStatusReads /\ StatusValue /\ UNCHANGED env
    \/ \E sender \in Senders : StatusStartNotify(sender) /\ UNCHANGED env
    \/ \E sender \in Senders : StatusStopNotify(sender) /\ UNCHANGED env

SpecStatus == Init /\ [][NextStatus]_vars

\* The link: centrals connect, write frames of one request each (dev1
\* under IdA, dev2 under IdB) with any flags, and disconnect at any point,
\* while time passes, more than the 30 s after which the design sweeps
\* the table.  The threads started are left at their start.  The service
\* goes on serving: subscriptions to the Response characteristic come and
\* go for ever, and time does not stop.
LinkId(device) == IF device = "dev1" THEN IdA ELSE IdB
LinkTick == now < StartTime + MaxTicks /\ Tick(30 + 1)

NextLink ==
    \/ \E device \in Devices : CentralConnects(device)
    \/ \E device \in Devices : CentralDisconnects(device)
    \/ \E device \in Devices, flags \in FlagBytes :
          /\ link[device] = "up"
          /\ nwrites < MaxWrites
          /\ WriteValue(MkFrame(LinkId(device), flags, PayLine), device)
          /\ UNCHANGED env
    \/ LinkTick
    \/ \E sender \in Senders : StartNotify(sender) /\ UNCHANGED env
    \/ \E sender \in Senders : StopNotify(sender) /\ UNCHANGED env

SpecLink ==
    Init /\ [][NextLink]_vars /\ WF_vars(NextLink) /\ WF_vars(LinkTick)


(***************************************************************************)
(* Properties of the reassembly layer (SpecFrames).                        *)
(***************************************************************************)
\* The threads started for an ID, as indices of workers.
WorkersOf(id) == {i \in 1..Len(workers) : workers[i].req_id = Hex(id)}

\* The last step was a WriteValue of a whole frame (header included).
FrameWritten == nwrites' = nwrites + 1 /\ Len(last_write'.value) >= HeaderLen

\* C1: when the frames written for an ID are one FIRST frame, continuation
\* frames and one LAST frame, in this order, exactly one thread was started
\* for the ID and the payload handed to it is the concatenation of the
\* payloads of these frames in arrival order, however the frames of the
\* other ID were interleaved with them.
C1_ReassemblyIsConcatenation ==
    \A id \in Ids :
        sent[id].st = "done" =>
            /\ Cardinality(WorkersOf(id)) = 1
            /\ \A i \in WorkersOf(id) : workers[i].req_data = sent[id].cat

\* A request of two frames for one ID was completed around a single-frame
\* request of the other ID.
C1_Witness ==
    /\ nwrites = 3
    /\ sent[IdA].st = "done" /\ sent[IdA].cat = PayLine \o PayEnd
    /\ sent[IdB].st = "done" /\ sent[IdB].cat = PayBinary
    /\ Len(workers) = 2
    /\ workers[1].req_id = Hex(IdB)
    /\ workers[2].req_data = PayLine \o PayEnd

\* C2: right after a write with LAST=1 was handled, request_data holds no
\* entry for the ID of the frame.
C2_EntryRemovedOnLast ==
    [][(FrameWritten /\ IsFinal(FrameFlags(last_write'.value)))
          => FrameId(last_write'.value) \notin DOMAIN request_data']_vars

\* C4: a frame with FIRST=0 for an ID without an entry is ignored whatever
\* its LAST bit is: no entry is created, no thread is started and the
\* handler returns without raising.
C4_UnknownContinuationIgnored ==
    [][(/\ FrameWritten
        /\ ~IsNew(FrameFlags(last_write'.value))
        /\ FrameId(last_write'.value) \notin DOMAIN request_data)
          => /\ request_data' = request_data
             /\ workers' = workers
             /\ last_write'.result = "return"]_vars

RequestCap == Len(PayLine) + Len(PayEnd)

\* C6: no reassembly buffer holds more than the per-request cap.
C6_BufferWithinCap ==
    \A k \in DOMAIN request_data : Len(request_data[k]) <= RequestCap


\* C13: total_requests is the number of reassemblies completed, that is of
\* threads started by a LAST frame; FIRST-only, continuation and too-short
\* writes leave it unchanged.
C13_RequestsCountCompletions ==
    connection_stats.total_requests = Len(workers)

\* The payload bytes the write of value adds to an accepting table: none
\* for a value shorter than the header or a continuation of an unknown ID.
AcceptedPayload(table, value) ==
    IF Len(value) < HeaderLen THEN 0
    ELSE IF ~IsNew(FrameFlags(value)) /\ FrameId(value) \notin DOMAIN table
    THEN 0
    ELSE Len(value) - HeaderLen

\* C14: a write raises total_bytes_received by the payload length of its
\* frame (its length minus the 17-byte header) when the frame is accepted,
\* and by nothing when it is rejected.
C14_BytesReceivedArePayload ==
    [][nwrites' = nwrites + 1 =>
          connection_stats'.total_bytes_received =
              connection_stats.total_bytes_received
                  + AcceptedPayload(request_data, last_write'.value)]_vars

\* flags & 0xFC != 0
HasReservedBits(flags) == flags \div 4 # 0

\* C17: a write whose flags byte has a reserved bit set opens, changes and
\* completes no reassembly entry and starts no thread.
C17_ReservedBitsRejected ==
    [][(FrameWritten /\ HasReservedBits(FrameFlags(last_write'.value)))
          => /\ request_data' = request_data
             /\ workers' = workers]_vars

(***************************************************************************)
(* Properties of the request path (Spec).                                  *)
(***************************************************************************)
\* A thread that has not ended (one blocked in the origin call included).
Active(i) == workers[i].pc # "done"

\* C3: at most one running _process_http_request thread per correlation ID.
C3_OneWorkerPerId ==
    \A i, j \in 1..Len(workers) :
        (i # j /\ Active(i) /\ Active(j))
            => workers[i].req_id # workers[j].req_id

\* C7: no request is dropped: a thread that has ended has produced a
\* response for its correlation ID.
C7_EveryRequestAnswered ==
    \A i \in 1..Len(workers) :
        workers[i].pc = "done" => workers[i].req_id \in DOMAIN response_data

\* The notifications emitted on the Response characteristic that carry id
\* in bytes 0..15, in emission order.
EmittedFor(id) ==
    LET Carries(e) == Slice(e, 0, IdLen) = id
    IN  SelectSeq(emitted, Carries)

\* The only request made under id has been processed to its end.
Answered(id) ==
    /\ Cardinality(WorkersOf(id)) = 1
    /\ \A i \in WorkersOf(id) : workers[i].pc = "done"
    /\ Hex(id) \in DOMAIN response_data

\* Payload bytes a response frame may carry at ATT MTU m.
MtuPayload(m) == m - AttHeader - HeaderLen

\* C8: the response frames notified for an ID start with the only frame
\* that has FIRST set and end with the only frame that has LAST set; a
\* response that fits in one chunk is one frame with flags 0x03.
C8_ResponseFramesOrdered ==
    \A id \in Ids :
        LET F == EmittedFor(id)
            n == Len(F)
        IN  (Answered(id) /\ F # << >>) =>
               /\ IsNew(FrameFlags(F[1]))
               /\ \A k \in 2..n : ~IsNew(FrameFlags(F[k]))
               /\ IsFinal(FrameFlags(F[n]))
               /\ \A k \in 1..(n - 1) : ~IsFinal(FrameFlags(F[k]))
               /\ Len(response_data[Hex(id)]) <= MtuPayload(mtu)
                     => F = <<MkFrame(id, 3, response_data[Hex(id)])>>

\* The payloads of a sequence of frames, concatenated.
RECURSIVE ConcatPayloads(_)
ConcatPayloads(frames) ==
    IF frames = << >> THEN << >>
    ELSE FrameData(frames[1]) \o ConcatPayloads(Tail(frames))

\* C9: the response of length L is notified in ceil(L / (M - 20)) frames
\* whose payloads, concatenated in emission order, are the response.
C9_ResponseChunking ==
    \A id \in Ids :
        LET F == EmittedFor(id)
            resp == response_data[Hex(id)]
        IN  (Answered(id) /\ F # << >>) =>
               /\ Len(F) = CeilDiv(Len(resp), MtuPayload(mtu))
               /\ ConcatPayloads(F) = resp

\* The status code of a serialized response: the second field of its
\* status line, as digits.
StatusOf(resp) == SplitSpace(SplitCRLF(resp)[1])[2]

\* The thread i is the only one started for its ID and has stored its
\* response (or ended without one).
Settled(i) ==
    /\ workers[i].pc \in {"notify", "done"}
    /\ \A j \in 1..Len(workers) :
          workers[j].req_id = workers[i].req_id => j = i

\* C18: the response to a well-formed request whose origin call failed
\* has status 502, and status 500 is given only to requests that could
\* not be parsed.
C18_OriginFailureIs502 ==
    \A i \in 1..Len(workers) :
        (Settled(i) /\ ParseRequest(workers[i].req_data).kind = "ok")
            => /\ workers[i].outcome = "error"
                  => StatusOf(response_data[workers[i].req_id]) = Decimal(502)
               /\ StatusOf(response_data[workers[i].req_id]) # Decimal(500)

\* The three malformations of a request text: a request line that is not
\* three fields, no blank line after the headers, a header line without
\* a colon.
Malformed(req_data) ==
    /\ Utf8Ok(req_data)
    /\ LET lines == SplitCRLF(req_data)
           header_end == IndexOfEmpty(lines, 1)
       IN  \/ Len(SplitSpace(lines[1])) # 3
           \/ header_end = 0
           \/ \E k \in 2..(header_end - 1) : FindByte(lines[k], COLON, 1) = 0

\* C19: a malformed request is answered with status 400 under its ID,
\* and its thread never reaches the origin call.
C19_MalformedIs400 ==
    \A i \in 1..Len(workers) :
        Malformed(workers[i].req_data) =>
            /\ workers[i].pc # "origin"
            /\ Settled(i) =>
                  /\ workers[i].req_id \in DOMAIN response_data
                  /\ StatusOf(response_data[workers[i].req_id]) = Decimal(400)

OwnMtu(m) == IF m = 0 THEN MinMtu ELSE m

\* C10: the chunk a read returns is at most the payload allowed by the MTU
\* of the central that reads, whatever other centrals reported before.
C10_ChunkWithinOwnMtu ==
    (nreads > 0 /\ read_result.mtu \in {0} \cup (MinMtu..MaxMtu))
        => Len(read_result.chunk) <= MtuPayload(OwnMtu(read_result.mtu))

(***************************************************************************)
(* Properties of the counters (SpecStats).                                 *)
(***************************************************************************)
\* The payload bytes of a sequence of notifications: what follows the
\* 17-byte header of each.
RECURSIVE PayloadBytes(_)
PayloadBytes(frames) ==
    IF frames = << >> THEN 0
    ELSE Len(FrameData(frames[1])) + PayloadBytes(Tail(frames))

C12_ClientGetsResponse ==
    client.pc = "done" =>
        /\ client.response_complete
        /\ client.outcome = "response"
        /\ client.response.status_code >= 0

(***************************************************************************)
(* Properties of the life of the process (SpecLife).                       *)
(***************************************************************************)
\* C20: a process that received a termination signal while it was serving
\* (its signal handlers installed) and has ended has unregistered its
\* advertisement and its application, has rewritten the status file to
\* 'stopped' and has exit status 0.
C20_SignalShutsDownCleanly ==
    (proc.signal # "none" /\ proc.handlers /\ proc.pc = "exited") =>
        /\ ~proc.advertisement
        /\ ~proc.application
        /\ proc.status_file = "stopped"
        /\ proc.exit_code = 0

\* The positions of call c in the calls made to BlueZ.
CallsOf(c) == {k \in 1..Len(proc.calls) : proc.calls[k] = c}

\* C21: the unregistration of the application is never attempted before
\* the unregistration of the advertisement has been attempted.
C21_AdvertisementUnregisteredFirst ==
    \A k \in CallsOf("UnregisterApplication") :
        \E j \in CallsOf("UnregisterAdvertisement") : j < k

\* The process was stopped by a signal while it served, and both
\* unregistrations were attempted.
C21_Witness ==
    /\ proc.pc = "exited"
    /\ proc.signal = "SIGTERM"
    /\ CallsOf("UnregisterAdvertisement") # {}
    /\ CallsOf("UnregisterApplication") # {}

\* C22: the advertisement is registered only while the application is
\* registered, the application only with an adapter found and powered;
\* the calls are made in the order power, application, advertisement;
\* and nothing is registered when no adapter is found.
C22_StartupOrder ==
    /\ proc.advertisement => proc.application
    /\ proc.application => (proc.adapter /\ proc.powered)
    /\ \A k \in CallsOf("RegisterAdvertisement") :
          \E j \in CallsOf("RegisterApplication") : j < k
    /\ \A k \in CallsOf("RegisterApplication") :
          \A j \in CallsOf("SetPowered") : j < k
    /\ ~proc.adapter =>
          /\ CallsOf("RegisterApplication") = {}
          /\ CallsOf("RegisterAdvertisement") = {}

\* The process serves on an adapter it had to power on.
C22_Witness ==
    /\ proc.pc = "serving"
    /\ proc.advertisement
    /\ proc.calls =
         <<"SetPowered", "RegisterApplication", "RegisterAdvertisement">>

(***************************************************************************)
(* Properties under load (SpecFill).                                       *)
(***************************************************************************)
\* C29: the reassembly table never holds more than 256 correlation IDs.
C29_TableHoldsAtMost256 == Cardinality(DOMAIN request_data) <= 256

\* The threads started and not finished.
RunningWorkers == {i \in 1..Len(workers) : workers[i].pc # "done"}

\* C30: at most 16 HTTP workers run at the same time.
C30_AtMost16Workers == Cardinality(RunningWorkers) <= 16

(***************************************************************************)
(* Properties of the bookkeeping (SpecBook).                               *)
(***************************************************************************)
\* The last direct call marked a device connected that was connected, or
\* disconnected that was not.
RepeatedMark ==
    /\ last_call.n > 0
    /\ last_call.device_path # None
    /\ \/ /\ last_call.connected = "True"
          /\ last_call.device_path \in last_call.before.devices
       \/ /\ last_call.connected = "False"
          /\ last_call.device_path \notin last_call.before.devices

\* C25: marking a device connected that is in the set, or disconnected
\* that is not, leaves total_connections, connected_clients and the set
\* as they were.
C25_MarkingIsIdempotent ==
    [][\A device_path \in Devices, connected \in {"True", "False"},
         bytes_sent \in BytesSentOpts, bytes_received \in BytesReceivedOpts :
         (/\ (connected = "True") = (device_path \in connected_devices)
          /\ StatsCall(device_path, connected, bytes_sent, bytes_received))
         => /\ connection_stats'.total_connections
                 = connection_stats.total_connections
            /\ connection_stats'.connected_clients
                 = connection_stats.connected_clients
            /\ connected_devices' = connected_devices]_vars

\* A device in the set was marked connected again, with no bytes.
C25_Witness ==
    /\ RepeatedMark
    /\ last_call.connected = "True"
    /\ last_call.bytes_sent = 0
    /\ last_call.bytes_received = 0
    /\ connection_stats.total_connections = 1

\* C26: no step lowers total_connections, total_requests,
\* total_bytes_sent or total_bytes_received.
C26_CountersMonotonic ==
    [][/\ connection_stats'.total_connections
            >= connection_stats.total_connections
       /\ connection_stats'.total_requests
            >= connection_stats.total_requests
       /\ connection_stats'.total_bytes_sent
            >= connection_stats.total_bytes_sent
       /\ connection_stats'.total_bytes_received
            >= connection_stats.total_bytes_received]_vars

\* A device was marked disconnected after bytes were sent and received
\* and a request counted.
C26_Witness ==
    /\ last_call.n > 0
    /\ last_call.connected = "False"
    /\ last_call.device_path \in last_call.before.devices
    /\ last_call.bytes_sent = 0
    /\ connection_stats.total_connections > 0
    /\ connection_stats.total_requests > 0
    /\ connection_stats.total_bytes_sent > 0
    /\ connection_stats.total_bytes_received > 0

(***************************************************************************)
(* Properties of the Status characteristic (SpecStatus).                   *)
(***************************************************************************)
\* notify_status_change has run.
Rebuilt == status_rebuild.value # << >>

\* The last two runs of notify_status_change are 2 s apart or more.
RebuildsApart ==
    Rebuilt => last_status_update - status_rebuild.prev >= StatusInterval

\* A read of the Status characteristic returns the counters as they are
\* when it returns.
ReadReturnsCounters ==
    status_read'.n # status_read.n
      => status_read'.value
           = StatusJson(connection_stats', last_status_update' # 0)

\* C27: two rebuilds of the status notification are never less than 2 s
\* apart, and every status read returns the counters as they are at the
\* time of the read.
C27_RateLimitedAndFresh == []RebuildsApart /\ [][ReadReturnsCounters]_vars

\* The part of C27 about the notifications alone.
C27_RebuildsRateLimited == RebuildsApart

\* The document a status read serializes is that of the counters as they
\* are when it returns, and what it returns is a part of that document.
ReadSnapshotsCounters ==
    status_read'.n # status_read.n
      => /\ status_read'.status_json
              = StatusJson(connection_stats', last_status_update' # 0)
         /\ status_read'.value
              \in {status_read'.status_json,
                   Slice(status_read'.status_json, status_read'.offset,
                         status_read'.offset + get_max_attribute_size(mtu'))}

Unfinished(id) == sent[id].st = "open"

\* C23: after a central disconnected in the middle of a request, its
\* entry is eventually removed from the reassembly table and the central
\* from the connected devices.
C23_DisconnectDropsPending ==
    \A device \in Devices :
        (link[device] = "down" /\ Unfinished(LinkId(device)))
          ~> (/\ Hex(LinkId(device)) \notin DOMAIN request_data
              /\ device \notin connected_devices)

\* C24: a reassembly left without its LAST frame is eventually removed
\* from the table, unless the central goes on with it.
C24_AbandonedEntryRemoved ==
    \A id \in Ids :
        Unfinished(id)
          ~> (~Unfinished(id) \/ Hex(id) \notin DOMAIN request_data)

(***************************************************************************)
(* Properties of the threads.                                              *)
(***************************************************************************)
\* The thread is in requests.request.
InOrigin(i) == workers[i].pc \in {"origin", "blocked"}

\* C31: while threads are in their origin call, WriteValue takes every
\* frame and returns.
C31_WriteNeverWaits ==
    (\E i \in 1..Len(workers) : InOrigin(i))
      => \A value \in BusyRequests : ENABLED WriteValue(value, None)

\* A request under another ID was admitted and answered while the thread
\* of the first request was left waiting for the origin.
C31_Witness ==
    /\ Len(workers) = 2
    /\ workers[1].pc = "blocked"
    /\ workers[2].req_id # workers[1].req_id
    /\ workers[2].pc = "done"
    /\ workers[2].outcome = "reply"
    /\ last_write.result = "return"

(***************************************************************************)
(* Properties of the serializer and the parser (SpecCodec).                *)
(***************************************************************************)
\* The headers as a set of (name, value) pairs.
HeaderSet(hs) == {hs[k] : k \in 1..Len(hs)}

\* C32: what the client parses from a serialized response is the response:
\* status code, reason phrase, headers (in any order) and body.
C32_ParseInvertsSerialize ==
    codec.stage = "parsed" =>
        /\ codec.parsed.outcome = "response"
        /\ codec.parsed.response.status_code = codec.r.status_code
        /\ codec.parsed.response.reason = codec.r.reason
        /\ HeaderSet(codec.parsed.response.headers) = HeaderSet(codec.r.headers)
        /\ codec.parsed.response.body = codec.r.text

(***************************************************************************)
(* The status file at the end of the process (SpecLife).                   *)
(***************************************************************************)
\* C33: a process that has ended has not left 'running' in the status
\* file.
C33_StatusFileNotRunningAfterExit ==
    proc.pc = "exited" => proc.status_file # "running"

(***************************************************************************)
(* Properties of the locks (SpecLocks).                                    *)
(***************************************************************************)
\* Thread t is at a with-statement on lock l.
AtWith(t, l) == NextOp(t) = Acquire(l)

\* No thread is at "with data_lock" while it holds stats_lock, and a thread
\* holding both is the event loop thread in a Response read.
LockOrder ==
    \A t \in Threads :
       /\ AtWith(t, "data_lock") => locks["stats_lock"] # t
       /\ (locks["data_lock"] = t /\ locks["stats_lock"] = t)
             => t = LoopThread /\ threads[t].handler = "ReadValue"

ResponseOf(i) ==
    LET w == workers[i]
    IN  IF w.outcome = "reply" THEN SerializeResponse(w.http_ver, Reply200)
        ELSE IF ParseRequest(w.req_data).kind = "error"
        THEN ErrorResponse(ParseRequest(w.req_data).msg)
        ELSE ErrorResponse(MsgOrigin)

\* Thread i has run to its end and has stored a response.
HasStored(i) ==
    workers[i].pc = "done" /\ workers[i].outcome \in {"reply", "error"}

\* C35: when the threads of two requests under one ID have both finished,
\* the response stored for the ID is that of the later request.
C35_LaterRequestWins ==
    \A i, j \in 1..Len(workers) :
       (i < j /\ workers[i].req_id = workers[j].req_id
          /\ HasStored(i) /\ HasStored(j))
       => response_data[workers[j].req_id] = ResponseOf(j)

(***************************************************************************)
(* Store and notification (Spec).                                          *)
(***************************************************************************)
\* The req_id a central takes from a notification: the hex form of its
\* first 16 bytes.
NotifiedId(value) == Hex(Slice(value, 0, IdLen))

\* C36: for every notification emitted, a read with its req_id at offset 0
\* returns bytes of a stored response.
C36_StoredBeforeNotified ==
    \A k \in 1..Len(emitted) :
       ReadChunk(response_data, NotifiedId(emitted[k]), 0,
                 get_max_attribute_size(mtu)) # << >>

\* Notifications were emitted for a response of the origin and for a 500.
C36_Witness ==
    /\ Len(emitted) >= 2
    /\ \E i, j \in 1..Len(workers) :
          /\ workers[i].pc = "done" /\ workers[i].outcome = "reply"
          /\ workers[j].pc = "done" /\ workers[j].outcome = "error"
          /\ workers[i].req_id # workers[j].req_id

(***************************************************************************)
(* Reading a response chunk by chunk (SpecLoop).                           *)
(***************************************************************************)
\* The response the central is reading.
LoopResponse == response_data[Hex(IdA)]

\* The MTU is in 23..517; what the central has is the response up to its
\* offset; its last read returned 1 to mtu - 3 bytes when it was made below
\* the end of the response, and nothing at the end; and the central that
\* has seen the empty read has the whole response.
ChunksAddUp ==
    /\ mtu \in MinMtu..MaxMtu
    /\ reader.reads > 0 =>
          /\ reader.got = Slice(LoopResponse, 0, reader.offset)
          /\ IF read_result.offset < Len(LoopResponse)
             THEN Len(read_result.chunk) \in 1..get_max_attribute_size(mtu)
             ELSE read_result.chunk = << >>
          /\ reader.ended => reader.got = LoopResponse

\* C37: reading from offset 0 and advancing by the length of every chunk, a
\* central gets the stored response, in chunks of 1 to mtu - 3 bytes, and
\* then an empty read, after finitely many reads.
C37_ReadLoopDeliversResponse ==
    /\ []ChunksAddUp
    /\ (Hex(IdA) \in DOMAIN response_data) ~> reader.ended

\* The 76 bytes of the error response were read in four chunks at MTU 23,
\* and the fifth read was empty.
C37_Witness ==
    /\ reader.ended /\ reader.reads = 5 /\ mtu = DefaultMtu
    /\ Len(reader.got) = 76 /\ reader.got = LoopResponse

(***************************************************************************)
(* The connection counters (SpecBook).                                     *)
(***************************************************************************)
\* connected_clients is the size of the set, and total_connections is not
\* below it.
ClientsCounted ==
    /\ connection_stats.connected_clients = Cardinality(connected_devices)
    /\ connection_stats.total_connections
          >= connection_stats.connected_clients

\* A step either adds one device to the set and one to total_connections,
\* or adds no device and leaves total_connections; a direct call raises
\* total_connections exactly when it marks a device connected that is not
\* in the set.
ConnectionsCounted ==
    /\ \/ /\ connection_stats'.total_connections
               = connection_stats.total_connections + 1
          /\ \E device \in Devices \ connected_devices :
                connected_devices' = connected_devices \cup {device}
       \/ /\ connection_stats'.total_connections
               = connection_stats.total_connections
          /\ connected_devices' \subseteq connected_devices
    /\ last_call'.n # last_call.n =>
          ((connection_stats'.total_connections
               = connection_stats.total_connections + 1)
             <=> /\ last_call'.device_path # None
                 /\ last_call'.connected = "True"
                 /\ last_call'.device_path \notin connected_devices)

\* C38: connected_clients equals the number of devices in the set,
\* total_connections is at least connected_clients, and total_connections
\* rises by one exactly when a device not in the set is marked connected.
C38_ConnectionCounters == []ClientsCounted /\ [][ConnectionsCounted]_vars

\* A device was marked connected and then disconnected: one connection
\* counted, no client connected.
C38_Witness ==
    /\ last_call.n = 2 /\ last_call.connected = "False"
    /\ last_call.device_path \in last_call.before.devices
    /\ connection_stats.total_connections = 1
    /\ connection_stats.connected_clients = 0
    /\ connected_devices = {}

(***************************************************************************)
(* The frames the client writes (SpecFramer).                              *)
(***************************************************************************)
\* The payloads of chunks k .. in send order, one after the other.
RECURSIVE ChunkPayloads(_, _)
ChunkPayloads(chunks, k) ==
    IF k > Len(chunks) THEN << >>
    ELSE Slice(chunks[k], 17, Len(chunks[k])) \o ChunkPayloads(chunks, k + 1)

\* C39: a request of L >= 1 bytes is written in ceil(L / 495) frames; each
\* starts with the 16 bytes of the request ID and carries at most 495
\* payload bytes; bit 0 of the flags byte is set on the first frame only,
\* bit 1 on the last frame only (0x03 on a single frame); the payloads in
\* send order are the request.
C39_FramesCarryRequest ==
    framer.stage = "split" =>
        LET L == Len(framer.request_bytes)
            n == Len(framer.chunks)
        IN  /\ n = (L + 494) \div 495
            /\ \A k \in 1..n :
                  LET chunk == framer.chunks[k]
                  IN  /\ Len(chunk) >= 17 /\ Len(chunk) <= 17 + 495
                      /\ Slice(chunk, 0, 16) = framer.request_id
                      /\ Len(framer.request_id) = 16
                      /\ (chunk[17] % 2 = 1) <=> (k = 1)
                      /\ ((chunk[17] \div 2) % 2 = 1) <=> (k = n)
                      /\ chunk[17] < 4
            /\ n = 1 => framer.chunks[1][17] = 3
            /\ ChunkPayloads(framer.chunks, 1) = framer.request_bytes

\* A request of twice 495 bytes went out in two full frames, flags 1 and 2.
C39_Witness ==
    /\ framer.stage = "split"
    /\ Len(framer.request_bytes) = 990
    /\ Len(framer.chunks) = 2
    /\ framer.chunks[1][17] = 1 /\ framer.chunks[2][17] = 2
    /\ Len(framer.chunks[2]) = 512

====
